---- MODULE Spec2Model ----
(***************************************************************************)
(* State-machine model of torchrl/data/replay_buffers/storages.py: the     *)
(* storage layer of the replay buffer (ListStorage, LazyStackStorage,      *)
(* TensorStorage, LazyTensorStorage, LazyMemmapStorage,                    *)
(* CompressedListStorage, StorageEnsemble).                                *)
(*                                                                         *)
(* One storage object is modelled per behaviour.  Its class and its        *)
(* constructor arguments are chosen in Init; every public method is one    *)
(* action.  Python sequences are 0-based, TLA+ sequences 1-based: slot i   *)
(* of a Python list is element i + 1 of the sequence that models it.       *)
(* A StorageEnsemble keeps its member storages, each an object of the same *)
(* form, in _storages.                                                     *)
(*                                                                         *)
(* The methods are the ones selected for torch >= 2.3 (implement_for).     *)
(* self._last_cursor is assigned by TensorStorage.set and read by no       *)
(* method of the file: it is left out of the state.                        *)
(***************************************************************************)
EXTENDS Integers, Sequences, FiniteSets, TLC

VARIABLES
    kind,                \* the class of the storage object
    max_size,            \* Storage.max_size
    device,              \* self.device ("none" models None)
    ndim,                \* self.ndim
    initialized,         \* TensorStorage.initialized
    _storage,            \* self._storage
    _metadata,           \* CompressedListStorage._metadata
    _len_value,          \* the number held by the object behind TensorStorage._len
    _len_class,          \* the class of that object: "Value" (mp.Value) or "int"
    _compilable,         \* Storage._compilable
    _total_shape_value,  \* the cache behind TensorStorage._total_shape
    _storages,           \* StorageEnsemble._storages
    _transforms,         \* StorageEnsemble._transforms
    _rng,                \* the generators: Storage._rng, and those of the members
    _attached_entities_list,  \* Storage._attached_entities_list
    workers,             \* the worker processes that share the storage
    slots,               \* history: the slots written since the last _empty
    n_init,              \* history: _init runs so far (2 stands for 2 or more)
    last                 \* history: the last call and the exception it raised

vars == <<kind, max_size, device, ndim, initialized, _storage, _metadata,
          _len_value, _len_class, _compilable, _total_shape_value, _storages,
          _transforms, _rng, _attached_entities_list, workers, slots, n_init,
          last>>

(***************************************************************************)
(* Bounds of the model.                                                    *)
(***************************************************************************)
\* largest max_size a list-backed storage is constructed with
MaxCap == 3
\* list-backed storages are explored while the backing list is at most
\* max_size + MaxOver long (slice assignment can grow the list)
MaxOver == 1
\* longest batch handed to one set call
MaxBatch == 2
\* a random generator yields the numbers 0..MaxDraw
MaxDraw == 3

(***************************************************************************)
(* Python values.                                                          *)
(***************************************************************************)
None == [type |-> "None"]

Min(a, b) == IF a < b THEN a ELSE b

Max(a, b) == IF a > b THEN a ELSE b

\* -(a // -b) for b > 0: Python's ceiling division idiom
CeilDiv(a, b) == -((-a) \div b)

RECURSIVE Numel(_)
\* torch.Size.numel: the product of the sizes
Numel(shape) ==
    IF shape = <<>> THEN 1 ELSE Head(shape) * Numel(Tail(shape))

\* Python's sequence index: a negative index counts from the end
PyIndex(n, i) == IF i < 0 THEN i + n ELSE i

\* whether seq[i] is an IndexError in Python
PyIndexValid(n, i) == PyIndex(n, i) >= 0 /\ PyIndex(n, i) < n

\* slice objects, with non-negative start and stop and a positive step
Slice(start, stop, step) ==
    [type |-> "slice", start |-> start, stop |-> stop, step |-> step]

\* slice.indices(n) for such a slice: start and stop are clamped to n
SliceIndices(sl, n) ==
    [start |-> Min(sl.start, n), stop |-> Min(sl.stop, n), step |-> sl.step]

RECURSIVE Range(_, _, _)
\* list(range(start, stop, step)) for step > 0
Range(start, stop, step) ==
    IF start >= stop THEN <<>>
    ELSE <<start>> \o Range(start + step, stop, step)

\* the Python list s[sl]
PySliceGet(s, sl) ==
    LET ix == SliceIndices(sl, Len(s))
        idx == Range(ix.start, ix.stop, ix.step)
    IN  [k \in 1..Len(idx) |-> s[idx[k] + 1]]

\* the Python statement s[sl] = data on a list: a step-1 slice is replaced
\* by the items of data, whatever their number; an extended slice needs
\* exactly as many items as it has positions (ValueError otherwise)
PySliceSet(s, sl, data) ==
    LET ix == SliceIndices(sl, Len(s))
        idx == Range(ix.start, ix.stop, ix.step)
    IN  IF sl.step = 1
        THEN [exc |-> "ok",
              seq |-> SubSeq(s, 1, ix.start) \o data
                        \o SubSeq(s, Max(ix.start, ix.stop) + 1, Len(s))]
        ELSE IF Len(data) # Len(idx)
        THEN [exc |-> "ValueError", seq |-> s]
        ELSE [exc |-> "ok",
              seq |-> [k \in 1..Len(s) |->
                         IF \E j \in 1..Len(idx) : idx[j] + 1 = k
                         THEN data[CHOOSE j \in 1..Len(idx) : idx[j] + 1 = k]
                         ELSE s[k]]]

(***************************************************************************)
(* Records: tensors, tensordicts and other Python values.  A tensor keeps  *)
(* its shape, element type, device and its elements in row-major order.    *)
(***************************************************************************)
Tensor(shape, dtype, dev, data) ==
    [type |-> "tensor", shape |-> shape, dtype |-> dtype, device |-> dev,
     data |-> data]

NonTensor(value) == [type |-> "non_tensor", value |-> value]

TensorDict(fields, batch_size) ==
    [type |-> "tensordict", fields |-> fields, batch_size |-> batch_size]

Other(value) == [type |-> "other", value |-> value]

IsTensor(x) == x.type = "tensor"

is_tensor_collection(x) == x.type = "tensordict"

\* x.to(device) on a tensor or a tensordict
To(x, dev) ==
    IF IsTensor(x) THEN [x EXCEPT !.device = dev]
    ELSE IF is_tensor_collection(x)
    THEN [x EXCEPT !.fields =
            [k \in DOMAIN x.fields |->
               IF IsTensor(x.fields[k])
               THEN [x.fields[k] EXCEPT !.device = dev]
               ELSE x.fields[k]]]
    ELSE x

\* ListStorage._to_device
_to_device(self, data) ==
    IF self.device # "none" THEN To(data, self.device) ELSE data

(***************************************************************************)
(* CompressedListStorage: the default compression functions.  The byte     *)
(* compressor (zlib, or zstd from Python 3.14) is modelled as a lossless   *)
(* run-length coder behind a one-byte stream header, so that a compressed  *)
(* payload is never empty and differs from the bytes it encodes.           *)
(***************************************************************************)
\* bytes per element of an element type
ItemSize(dtype) == IF dtype = "int16" THEN 2 ELSE 1

RECURSIVE ToBytes(_, _)
\* numpy's tobytes: the elements in little-endian order
ToBytes(data, dtype) ==
    IF data = <<>> THEN <<>>
    ELSE IF dtype = "int16"
    THEN <<Head(data) % 256, Head(data) \div 256>> \o ToBytes(Tail(data), dtype)
    ELSE <<Head(data)>> \o ToBytes(Tail(data), dtype)

RECURSIVE FromBytes(_, _)
\* the elements torch.frombuffer reads from a byte buffer
FromBytes(bytes, dtype) ==
    IF bytes = <<>> THEN <<>>
    ELSE IF dtype = "int16"
    THEN <<bytes[1] + 256 * bytes[2]>> \o FromBytes(Tail(Tail(bytes)), dtype)
    ELSE <<Head(bytes)>> \o FromBytes(Tail(bytes), dtype)

\* CompressedListStorage.to_bytestream on a tensor
to_bytestream(tensor) == ToBytes(tensor.data, tensor.dtype)

RECURSIVE RunLength(_, _)
\* how many leading elements of bytes equal b
RunLength(bytes, b) ==
    IF bytes = <<>> \/ Head(bytes) # b THEN 0
    ELSE 1 + RunLength(Tail(bytes), b)

RECURSIVE Deflate(_)
\* the run-length payload: (count, byte) pairs
Deflate(bytes) ==
    IF bytes = <<>> THEN <<>>
    ELSE LET n == RunLength(bytes, Head(bytes))
         IN  <<n, Head(bytes)>> \o Deflate(SubSeq(bytes, n + 1, Len(bytes)))

RECURSIVE Inflate(_)
\* the inverse of Deflate
Inflate(pairs) ==
    IF pairs = <<>> THEN <<>>
    ELSE [k \in 1..pairs[1] |-> pairs[2]] \o Inflate(Tail(Tail(pairs)))

\* compressor_fn(tensor_bytes, level=...): the stream header, then the payload
compressor_fn(bytes) == <<120>> \o Deflate(bytes)

\* decompressor_fn(compressed_bytes)
decompressor_fn(bytes) == Inflate(Tail(bytes))

\* CompressedListStorage._default_compression_fn: a uint8 cpu tensor
\* holding the compressed bytes
_default_compression_fn(tensor) ==
    LET compressed_bytes == compressor_fn(to_bytestream(tensor))
    IN  Tensor(<<Len(compressed_bytes)>>, "uint8", "cpu", compressed_bytes)

\* CompressedListStorage._default_decompression_fn: the bytes are read at
\* the recorded element type, reshaped to the recorded shape and moved to
\* the recorded device
_default_decompression_fn(compressed_tensor, metadata) ==
    LET decompressed_bytes == decompressor_fn(to_bytestream(compressed_tensor))
    IN  Tensor(metadata.shape, metadata.dtype, metadata.device,
               FromBytes(decompressed_bytes, metadata.dtype))

\* whether _default_decompression_fn raises: frombuffer needs whole
\* elements, reshape needs the recorded number of elements
DecompressionRaises(compressed_tensor, metadata) ==
    LET n == Len(decompressor_fn(to_bytestream(compressed_tensor)))
    IN  \/ n = 0
        \/ n % ItemSize(metadata.dtype) # 0
        \/ n \div ItemSize(metadata.dtype) # Numel(metadata.shape)

\* the metadata _compress_item keeps for a tensor
TensorMetadata(t) ==
    [type |-> "tensor", shape |-> t.shape, dtype |-> t.dtype,
     device |-> t.device]

\* CompressedListStorage._compress_item: (compressed, metadata)
_compress_item(item) ==
    IF IsTensor(item)
    THEN [compressed |-> _default_compression_fn(item),
          metadata |-> TensorMetadata(item)]
    ELSE IF is_tensor_collection(item)
    THEN [compressed |->
            [type |-> "dict",
             fields |-> [k \in DOMAIN item.fields |->
                           IF IsTensor(item.fields[k])
                           THEN _default_compression_fn(item.fields[k])
                           ELSE item.fields[k]]],
          metadata |->
            [type |-> "tensordict",
             fields |-> [k \in DOMAIN item.fields |->
                           IF IsTensor(item.fields[k])
                           THEN TensorMetadata(item.fields[k])
                           ELSE [type |-> "non_tensor",
                                 value |-> item.fields[k]]]]]
    ELSE [compressed |-> item,
          metadata |-> [type |-> "other", value |-> item]]

\* CompressedListStorage._decompress_item
_decompress_item(compressed_data, metadata) ==
    IF metadata.type = "tensor"
    THEN _default_decompression_fn(compressed_data, metadata)
    ELSE IF metadata.type = "tensordict"
    THEN TensorDict(
           [k \in DOMAIN metadata.fields |->
              IF metadata.fields[k].type = "non_tensor"
              THEN metadata.fields[k].value
              ELSE _default_decompression_fn(compressed_data.fields[k],
                                             metadata.fields[k])],
           \* metadata.get("batch_size", [])
           IF "batch_size" \in DOMAIN metadata
           THEN metadata.batch_size ELSE <<>>)
    ELSE metadata.value

(***************************************************************************)
(* The storage object.  Self is the object the variables describe; every   *)
(* method is an operator from an object (and its arguments) to the outcome *)
(* of the call: the exception raised ("ok" when none), the object after    *)
(* the call, the value returned and the number of _init runs.              *)
(***************************************************************************)
Self ==
    [kind |-> kind, max_size |-> max_size, device |-> device, ndim |-> ndim,
     initialized |-> initialized, _storage |-> _storage,
     _metadata |-> _metadata, _len_value |-> _len_value,
     _len_class |-> _len_class, _compilable |-> _compilable,
     _total_shape_value |-> _total_shape_value]

\* a Python bool
Bool(b) == [type |-> "bool", value |-> b]

Returns(self, ret) == [exc |-> "ok", self |-> self, ret |-> ret, inits |-> 0]

Raises(self, exc) == [exc |-> exc, self |-> self, ret |-> None, inits |-> 0]

ListKinds == {"ListStorage", "LazyStackStorage", "CompressedListStorage"}

TensorKinds == {"LazyTensorStorage", "LazyMemmapStorage"}

\* a Python list of items, as an argument or a return value
List(items) == [type |-> "list", items |-> items]

(***************************************************************************)
(* ListStorage, and the methods CompressedListStorage overrides.           *)
(***************************************************************************)
\* ListStorage._set_item: append at the end, else overwrite the slot
ListStorage_set_item(self, cursor, data) ==
    IF cursor = Len(self._storage)
    THEN Returns([self EXCEPT !._storage = Append(@, data)], None)
    ELSE IF ~PyIndexValid(Len(self._storage), cursor)
    THEN Raises(self, "IndexError")
    ELSE Returns([self EXCEPT
                    !._storage[PyIndex(Len(self._storage), cursor) + 1] = data],
                 None)

\* _set_item as it would be if only the list of payloads were padded up to
\* the cursor: the metadata is appended where its list ends
CompressedListStorage_set_item_payload_padded(self, cursor, data) ==
    LET n == Len(self._storage)
        pad == IF n <= cursor THEN cursor + 1 - n ELSE 0
        padded == [self EXCEPT !._storage = @ \o [k \in 1..pad |-> None]]
        c == _compress_item(data)
        at == PyIndex(Len(padded._storage), cursor) + 1
    IN  IF ~PyIndexValid(Len(padded._storage), cursor)
        THEN Raises(padded, "IndexError")
        ELSE Returns([padded EXCEPT
                        !._storage[at] = c.compressed,
                        !._metadata = IF at <= Len(@)
                                      THEN [@ EXCEPT ![at] = c.metadata]
                                      ELSE Append(@, c.metadata)],
                     None)

\* CompressedListStorage._set_item: pad both lists with None up to the
\* cursor, then store the compressed payload and its metadata
CompressedListStorage_set_item(self, cursor, data) ==
    LET n == Len(self._storage)
        pad == IF n <= cursor THEN cursor + 1 - n ELSE 0
        padded == [self EXCEPT
                     !._storage = @ \o [k \in 1..pad |-> None],
                     !._metadata = @ \o [k \in 1..pad |-> None]]
        c == _compress_item(data)
    IN  IF ~PyIndexValid(Len(padded._storage), cursor)
        THEN Raises(padded, "IndexError")
        ELSE IF ~PyIndexValid(Len(padded._metadata), cursor)
        THEN Raises([padded EXCEPT
                       !._storage[PyIndex(Len(padded._storage), cursor) + 1] =
                           c.compressed],
                    "IndexError")
        ELSE Returns([padded EXCEPT
                        !._storage[PyIndex(Len(padded._storage), cursor) + 1] =
                            c.compressed,
                        !._metadata[PyIndex(Len(padded._metadata), cursor) + 1] =
                            c.metadata],
                     None)

\* self._set_item, by the class of self
_set_item(self, cursor, data) ==
    IF self.kind = "CompressedListStorage"
    THEN CompressedListStorage_set_item(self, cursor, data)
    ELSE ListStorage_set_item(self, cursor, data)

\* ListStorage.set with an integer cursor, as it would be without the
\* cursor >= max_size check
ListStorage_set_int_unbounded(self, cursor, data, set_cursor) ==
    IF cursor > Len(self._storage)
    THEN Raises(self, "RuntimeError")
    ELSE _set_item(self, cursor, _to_device(self, data))

\* ListStorage.set with an integer cursor (the else branch): the two range
\* checks, the move to the device, _set_item.  set_cursor is not read.
ListStorage_set_int(self, cursor, data, set_cursor) ==
    IF cursor > Len(self._storage)
    THEN Raises(self, "RuntimeError")
    ELSE IF cursor >= self.max_size
    THEN Raises(self, "RuntimeError")
    ELSE _set_item(self, cursor, _to_device(self, data))

RECURSIVE SetItems(_, _, _)
\* for i, value in zip(indices, data): self._set_item(i, value)
SetItems(self, indices, data) ==
    IF indices = <<>> \/ data = <<>> THEN Returns(self, None)
    ELSE LET r == _set_item(self, Head(indices), Head(data))
         IN  IF r.exc # "ok" THEN r
             ELSE SetItems(r.self, Tail(indices), Tail(data))

\* ListStorage._set_slice: self._storage[cursor] = data
ListStorage_set_slice(self, cursor, data) ==
    LET r == PySliceSet(self._storage, cursor, data)
    IN  IF r.exc # "ok" THEN Raises(self, r.exc)
        ELSE Returns([self EXCEPT !._storage = r.seq], None)

\* CompressedListStorage._set_slice: the positions of the slice within the
\* current list, zipped with the items
CompressedListStorage_set_slice(self, cursor, data) ==
    LET ix == SliceIndices(cursor, Len(self._storage))
    IN  SetItems(self, Range(ix.start, ix.stop, ix.step), data)

\* ListStorage.set with a slice cursor
ListStorage_set_slice_cursor(self, cursor, data, set_cursor) ==
    LET moved == [k \in 1..Len(data.items) |-> _to_device(self, data.items[k])]
    IN  IF self.kind = "CompressedListStorage"
        THEN CompressedListStorage_set_slice(self, cursor, moved)
        ELSE ListStorage_set_slice(self, cursor, moved)

RECURSIVE SetPairsShortest(_, _, _, _)
\* the loop of set over a plain zip, which stops at the shorter sequence
SetPairsShortest(self, cursor, data, set_cursor) ==
    IF cursor = <<>> \/ data = <<>> THEN Returns(self, None)
    ELSE LET r == ListStorage_set_int(self, Head(cursor), Head(data), set_cursor)
         IN  IF r.exc # "ok" THEN r
             ELSE SetPairsShortest(r.self, Tail(cursor), Tail(data), set_cursor)

RECURSIVE SetPairs(_, _, _, _)
\* for _cursor, _data in _zip_strict(cursor, data): self.set(_cursor, _data):
\* the pairs are written one by one, and the strict zip raises only when
\* one of the two sequences ends before the other
SetPairs(self, cursor, data, set_cursor) ==
    IF cursor = <<>> \/ data = <<>>
    THEN IF Len(cursor) # Len(data) THEN Raises(self, "ValueError")
         ELSE Returns(self, None)
    ELSE LET r == ListStorage_set_int(self, Head(cursor), Head(data), set_cursor)
         IN  IF r.exc # "ok" THEN r
             ELSE SetPairs(r.self, Tail(cursor), Tail(data), set_cursor)

\* ListStorage.set with a list of indices as the cursor
ListStorage_set_list_cursor(self, cursor, data, set_cursor) ==
    IF data.type = "list"
    THEN SetPairs(self, cursor, data.items, set_cursor)
    ELSE Raises(self, "TypeError")

\* ListStorage.set: dispatch on the kind of the cursor
ListStorage_set(self, ckind, cursor, data, set_cursor) ==
    IF ckind = "int"
    THEN ListStorage_set_int(self, cursor, data, set_cursor)
    ELSE IF ckind = "slice"
    THEN ListStorage_set_slice_cursor(self, cursor, data, set_cursor)
    ELSE ListStorage_set_list_cursor(self, cursor, data, set_cursor)

\* whether decompressing slot contents raises
DecompressRaises(compressed_data, metadata) ==
    IF metadata.type = "tensor"
    THEN DecompressionRaises(compressed_data, metadata)
    ELSE IF metadata.type = "tensordict"
    THEN \E k \in DOMAIN metadata.fields :
            /\ metadata.fields[k].type # "non_tensor"
            /\ DecompressionRaises(compressed_data.fields[k], metadata.fields[k])
    ELSE FALSE

\* ListStorage._get_item: self._storage[index]
ListStorage_get_item(self, index) ==
    IF ~PyIndexValid(Len(self._storage), index)
    THEN Raises(self, "IndexError")
    ELSE Returns(self, self._storage[PyIndex(Len(self._storage), index) + 1])

\* CompressedListStorage._get_item: an unset slot is an IndexError
CompressedListStorage_get_item(self, index) ==
    IF index >= Len(self._storage)
    THEN Raises(self, "IndexError")
    ELSE IF ~PyIndexValid(Len(self._storage), index)
    THEN Raises(self, "IndexError")
    ELSE LET k == PyIndex(Len(self._storage), index) + 1
         IN  IF self._storage[k] = None THEN Raises(self, "IndexError")
             ELSE IF ~PyIndexValid(Len(self._metadata), index)
             THEN Raises(self, "IndexError")
             ELSE LET m == self._metadata[PyIndex(Len(self._metadata), index) + 1]
                  IN  IF m = None THEN Raises(self, "TypeError")
                      ELSE IF DecompressRaises(self._storage[k], m)
                      THEN Raises(self, "ValueError")
                      ELSE Returns(self, _decompress_item(self._storage[k], m))

\* self._get_item, by the class of self
_get_item(self, index) ==
    IF self.kind = "CompressedListStorage"
    THEN CompressedListStorage_get_item(self, index)
    ELSE ListStorage_get_item(self, index)

RECURSIVE GetItems(_, _)
\* [self._get_item(i) for i in index], up to the first exception
GetItems(self, index) ==
    IF index = <<>> THEN Returns(self, <<>>)
    ELSE LET r == _get_item(self, Head(index))
         IN  IF r.exc # "ok" THEN r
             ELSE LET rest == GetItems(self, Tail(index))
                  IN  IF rest.exc # "ok" THEN rest
                      ELSE Returns(self, <<r.ret>> \o rest.ret)

RECURSIVE SetPositions(_, _)
\* the positions among idx that hold an entry
SetPositions(self, idx) ==
    IF idx = <<>> THEN <<>>
    ELSE IF Head(idx) < Len(self._storage) /\ self._storage[Head(idx) + 1] # None
    THEN <<Head(idx)>> \o SetPositions(self, Tail(idx))
    ELSE SetPositions(self, Tail(idx))

\* ListStorage._get_slice / CompressedListStorage._get_slice
_get_slice(self, index) ==
    IF self.kind = "CompressedListStorage"
    THEN LET ix == SliceIndices(index, Len(self._storage))
             r == GetItems(self, SetPositions(self, Range(ix.start, ix.stop, ix.step)))
         IN  IF r.exc # "ok" THEN r ELSE Returns(self, List(r.ret))
    ELSE Returns(self, List(PySliceGet(self._storage, index)))

\* ListStorage._get_list / CompressedListStorage._get_list
_get_list(self, index) ==
    LET r == GetItems(self, index)
    IN  IF r.exc # "ok" THEN r ELSE Returns(self, List(r.ret))

\* ListStorage.get: dispatch on the kind of the index
ListStorage_get(self, ckind, index) ==
    IF ckind = "int" THEN _get_item(self, index)
    ELSE IF ckind = "slice" THEN _get_slice(self, index)
    ELSE _get_list(self, index)

\* LazyStackStorage.get: a list result becomes a lazy stack of its items
\* along stack_dim (0, the default); an empty list cannot be stacked
LazyStackStorage_get(self, ckind, index) ==
    LET out == ListStorage_get(self, ckind, index)
    IN  IF out.exc = "ok" /\ out.ret.type = "list"
        THEN IF out.ret.items = <<>> THEN Raises(self, "RuntimeError")
             ELSE Returns(self, [type |-> "lazy_stack", items |-> out.ret.items,
                                 stack_dim |-> 0])
        ELSE out

\* CompressedListStorage.__len__ as it would be if it reported the length
\* of the backing list
ListStorage_len_raw(self) == Len(self._storage)

\* ListStorage.__len__ / CompressedListStorage.__len__
ListStorage_len(self) ==
    IF self.kind = "CompressedListStorage"
    THEN Cardinality({k \in 1..Len(self._storage) : self._storage[k] # None})
    ELSE Len(self._storage)

RECURSIVE SizeOfFields(_, _)
RECURSIVE SizeOfItems(_)
\* compressed_size_from_list of CompressedListStorage.bytes on one entry:
\* (whether the call raises, the size).  None counts 0, a tensor its
\* nbytes, a mapping the sum over its values, any other object 0; a str is
\* a Sequence whose items are again str, so the sum over its items never
\* ends (RecursionError); the values the model stores as they are, are
\* str objects.  The non-tensor entry of a compressed tensordict is taken
\* to count 0.
compressed_size_from_list(data) ==
    IF data = None THEN [raises |-> FALSE, size |-> 0]
    ELSE IF data.type = "tensor"
    THEN [raises |-> FALSE, size |-> Len(data.data) * ItemSize(data.dtype)]
    ELSE IF data.type = "dict"
    THEN SizeOfFields(data.fields, DOMAIN data.fields)
    ELSE IF data.type = "other" THEN [raises |-> TRUE, size |-> 0]
    ELSE [raises |-> FALSE, size |-> 0]

\* sum(compressed_size_from_list(value) for value in data.values())
SizeOfFields(fields, keys) ==
    IF keys = {} THEN [raises |-> FALSE, size |-> 0]
    ELSE LET k == CHOOSE k \in keys : TRUE
             head == compressed_size_from_list(fields[k])
             rest == SizeOfFields(fields, keys \ {k})
         IN  [raises |-> head.raises \/ rest.raises, size |-> head.size + rest.size]

\* sum(compressed_size_from_list(item) for item in data) over a list
SizeOfItems(items) ==
    IF items = <<>> THEN [raises |-> FALSE, size |-> 0]
    ELSE LET head == compressed_size_from_list(Head(items))
             rest == SizeOfItems(Tail(items))
         IN  [raises |-> head.raises \/ rest.raises, size |-> head.size + rest.size]

\* CompressedListStorage.bytes: the size of the backing list; a size of 0
\* is a RuntimeError when the list is not empty, a warning otherwise
CompressedListStorage_bytes(self) ==
    LET estimate == SizeOfItems(self._storage)
    IN  IF estimate.raises THEN Raises(self, "RecursionError")
        ELSE IF estimate.size = 0 /\ Len(self._storage) > 0
        THEN Raises(self, "RuntimeError")
        ELSE Returns(self, [type |-> "int", value |-> estimate.size,
                            warned |-> estimate.size = 0])

\* ListStorage._empty / CompressedListStorage._empty
ListStorage_empty(self) ==
    IF self.kind = "CompressedListStorage"
    THEN Returns([self EXCEPT !._storage = <<>>, !._metadata = <<>>], None)
    ELSE Returns([self EXCEPT !._storage = <<>>], None)

\* ListStorage._contains_int / CompressedListStorage._contains_int
_contains_int(self, item) ==
    IF self.kind = "CompressedListStorage"
    THEN /\ 0 <= item
         /\ item < Len(self._storage)
         /\ self._storage[item + 1] # None
    ELSE 0 <= item /\ item < Len(self._storage)

\* ListStorage.contains as it would be without the move of a negative item
ListStorage_contains_unwrapped(self, item) ==
    Returns(self, Bool(_contains_int(self, item)))

\* ListStorage.contains with an integer item: a negative item is moved up
\* by the length of the list
ListStorage_contains(self, item) ==
    Returns(self,
            Bool(_contains_int(self, IF item < 0 THEN item + Len(self._storage)
                                     ELSE item)))

\* tensordict.state_dict(): the entries, "__batch_size" among them
TensorDict_state_dict(td) ==
    [type |-> "dict", fields |-> td.fields, __batch_size |-> td.batch_size]

\* TensorDict().load_state_dict(elt, strict=False)
TensorDict_load_state_dict(elt) == TensorDict(elt.fields, elt.__batch_size)

\* the keys of a mapping returned by state_dict
Keys(state_dict) == DOMAIN state_dict \ {"type"}

\* ListStorage.state_dict: one key, "_storage"; an element with a
\* state_dict method (a tensordict) is replaced by its state_dict()
ListStorage_state_dict(self) ==
    Returns(self,
            [type |-> "state_dict",
             _storage |-> [k \in 1..Len(self._storage) |->
                             IF is_tensor_collection(self._storage[k])
                             THEN TensorDict_state_dict(self._storage[k])
                             ELSE self._storage[k]]])

\* CompressedListStorage.state_dict: the two lists themselves
CompressedListStorage_state_dict(self) ==
    Returns(self,
            [type |-> "state_dict", _storage |-> self._storage,
             _metadata |-> self._metadata])

RECURSIVE LoadElements(_, _)
\* the loop of ListStorage.load_state_dict: tensors are appended, mappings
\* are appended as tensordicts, anything else is a TypeError that leaves
\* the elements before it in the list
LoadElements(self, elts) ==
    IF elts = <<>> THEN Returns(self, None)
    ELSE LET elt == Head(elts)
         IN  IF IsTensor(elt)
             THEN LoadElements([self EXCEPT !._storage = Append(@, elt)],
                               Tail(elts))
             ELSE IF elt.type = "dict"
             THEN LoadElements([self EXCEPT !._storage =
                                  Append(@, TensorDict_load_state_dict(elt))],
                               Tail(elts))
             ELSE Raises(self, "TypeError")

\* ListStorage.load_state_dict
ListStorage_load_state_dict(self, state_dict) ==
    IF "_storage" \notin Keys(state_dict) THEN Raises(self, "KeyError")
    ELSE LoadElements([self EXCEPT !._storage = <<>>], state_dict._storage)

\* CompressedListStorage.load_state_dict: the two lists are adopted
CompressedListStorage_load_state_dict(self, state_dict) ==
    IF "_storage" \notin Keys(state_dict) THEN Raises(self, "KeyError")
    ELSE IF "_metadata" \notin Keys(state_dict)
    THEN Raises([self EXCEPT !._storage = state_dict._storage], "KeyError")
    ELSE Returns([self EXCEPT !._storage = state_dict._storage,
                              !._metadata = state_dict._metadata],
                 None)

(***************************************************************************)
(* TensorStorage, LazyTensorStorage, LazyMemmapStorage.                    *)
(*                                                                         *)
(* A buffer leaf keeps its full shape, its element type and, for every     *)
(* position along axis 0, a symbol standing for the contents of that       *)
(* position ("garbage" for memory that was allocated and never written).   *)
(* A record handed to set has the same form: one symbol per position of    *)
(* its leading axis when it is a batch (batched = TRUE), one symbol when   *)
(* it is a single item.  layout tells a plain tensor, a tensordict and any *)
(* other pytree apart; a tensordict also has a batch_size.                 *)
(***************************************************************************)
Leaf(shape, dtype, rows) == [shape |-> shape, dtype |-> dtype, rows |-> rows]

Record(layout, batch_size, batched, leaves) ==
    [type |-> "record", layout |-> layout, batch_size |-> batch_size,
     batched |-> batched, leaves |-> leaves]

\* shape[:n]
Prefix(shape, n) == SubSeq(shape, 1, Min(Max(n, 0), Len(shape)))

\* shape[n:]
Suffix(shape, n) == SubSeq(shape, Min(Max(n, 0), Len(shape)) + 1, Len(shape))

\* the keys of a tree in the order tree_iter / tree_map visit its leaves
KeysOf(leaves) == SelectSeq(<<"a", "b">>, LAMBDA k : k \in DOMAIN leaves)

\* the first key of a tree
FirstKey(leaves) == Head(KeysOf(leaves))

\* data.shape for a tensordict or a tensor, the first leaf's shape otherwise
DataShape(data) ==
    IF data.layout = "tensordict" THEN data.batch_size
    ELSE data.leaves[FirstKey(data.leaves)].shape

\* the object the setter of TensorStorage._len creates on the first
\* assignment: an mp.Value("i") unless the storage is compilable
LenClass(compilable) == IF compilable THEN "int" ELSE "Value"

\* TensorStorage.__init__ with a storage and no max_size: max_size and the
\* length are the size of the storage along axis 0, whatever ndim is
TensorStorage_init(storage, dev, nd) ==
    [kind |-> "TensorStorage", max_size |-> DataShape(storage)[1],
     device |-> dev, ndim |-> nd, initialized |-> TRUE, _storage |-> storage,
     _metadata |-> <<>>, _len_value |-> DataShape(storage)[1],
     _len_class |-> LenClass(FALSE), _compilable |-> FALSE,
     _total_shape_value |-> None]

\* the length cell behind TensorStorage._len
_len(self) == self._len_value

\* TensorStorage._get_new_len: the element count of the record is added to
\* the length, which is clipped at max_size
_get_new_len(self, data, int_cursor) ==
    LET n == self.ndim - (IF int_cursor THEN 1 ELSE 0)
        numel == Numel(Prefix(DataShape(data), n))
    IN  [self EXCEPT !._len_value = Min(_len(self) + numel, self.max_size)]

\* max_size_along_dim0 of _init: the buffer shape for one leaf (or for the
\* batch size of a tensordict); for ndim > 1 it also assigns self.max_size
max_size_along_dim0(self, data_shape) ==
    IF self.ndim > 1
    THEN LET result == <<CeilDiv(self.max_size,
                                 Numel(Prefix(data_shape, self.ndim - 1)))>>
                         \o data_shape
         IN  [shape |-> result, self |-> [self EXCEPT !.max_size = Numel(result)]]
    ELSE [shape |-> <<self.max_size>> \o data_shape, self |-> self]

\* an allocated and unwritten leaf of the given shape
EmptyLeaf(shape, dtype) ==
    Leaf(shape, dtype, [k \in 1..shape[1] |-> "garbage"])

RECURSIVE InitLeaves(_, _, _, _)
\* tree_map over the leaves of a pytree, in key order: each call of
\* max_size_along_dim0 reads the max_size the previous one left
InitLeaves(self, data, keys, out) ==
    IF keys = <<>> THEN [self |-> self, leaves |-> out]
    ELSE LET k == Head(keys)
             r == max_size_along_dim0(self, data.leaves[k].shape)
         IN  InitLeaves(r.self, data, Tail(keys),
                        [j \in DOMAIN out \cup {k} |->
                           IF j = k
                           THEN EmptyLeaf(r.shape, data.leaves[k].dtype)
                           ELSE out[j]])

\* LazyTensorStorage._init / LazyMemmapStorage._init on a single item: the
\* buffers are allocated, self._storage and self.initialized are assigned.
\* Neither method looks at self.initialized.
_init(self, data) ==
    IF is_tensor_collection([type |-> data.layout])
    THEN LET r == max_size_along_dim0(self, data.batch_size)
             nb == Len(data.batch_size)
         IN  [r.self EXCEPT
                !._storage =
                    Record("tensordict", r.shape, TRUE,
                           [k \in DOMAIN data.leaves |->
                              EmptyLeaf(r.shape \o Suffix(data.leaves[k].shape, nb),
                                        data.leaves[k].dtype)]),
                !.initialized = TRUE]
    ELSE LET r == InitLeaves(self, data, KeysOf(data.leaves), <<>>)
         IN  [r.self EXCEPT
                !._storage = Record(data.layout, <<>>, TRUE, r.leaves),
                !.initialized = TRUE]

RECURSIVE AllOnes(_)
AllOnes(shape) == shape = <<>> \/ (Head(shape) = 1 /\ AllOnes(Tail(shape)))

\* torch's rule for tensor[index] = value: the value's shape, leading
\* axes of size 1 apart, broadcasts to the shape of the indexed view
Broadcastable(d, t) ==
    LET extra == Len(d) - Len(t)
        dd == IF extra > 0 THEN Suffix(d, extra) ELSE d
        off == Len(t) - Len(dd)
    IN  /\ extra > 0 => AllOnes(Prefix(d, extra))
        /\ \A i \in 1..Len(dd) : dd[i] = t[i + off] \/ dd[i] = 1

\* the positions along axis 0 a cursor addresses in a buffer of n rows, as
\* torch resolves them: a slice is clamped, a negative integer wraps
Positions(ckind, cursor, n) ==
    IF ckind = "int" THEN <<PyIndex(n, cursor)>>
    ELSE IF ckind = "slice"
    THEN LET ix == SliceIndices(cursor, n)
         IN  Range(ix.start, ix.stop, ix.step)
    ELSE [k \in 1..Len(cursor) |-> PyIndex(n, cursor[k])]

\* whether indexing n rows with the cursor is an IndexError
IndexRaises(ckind, cursor, n) ==
    IF ckind = "int" THEN ~PyIndexValid(n, cursor)
    ELSE IF ckind = "slice" THEN FALSE
    ELSE \E k \in 1..Len(cursor) : ~PyIndexValid(n, cursor[k])

\* the shape of store[cursor]
ViewShape(ckind, cursor, shape) ==
    IF ckind = "int" THEN Tail(shape)
    ELSE <<Len(Positions(ckind, cursor, shape[1]))>> \o Tail(shape)

\* store[cursor] = datum on one leaf: the element type of the buffer is
\* kept (the value is cast), the value is broadcast over the positions
SetLeaf(store, ckind, cursor, datum, batched) ==
    LET pos == Positions(ckind, cursor, store.shape[1])
    IN  [store EXCEPT !.rows =
           [r \in 1..Len(store.rows) |->
              IF \E j \in 1..Len(pos) : pos[j] + 1 = r
              THEN LET j == CHOOSE i \in 1..Len(pos) : pos[i] + 1 = r
                   IN  IF batched /\ Len(datum.rows) > 1
                       THEN datum.rows[j] ELSE datum.rows[1]
              ELSE store.rows[r]]]

\* whether store[cursor] = datum raises on one leaf, and what
SetLeafRaises(store, ckind, cursor, datum) ==
    IF IndexRaises(ckind, cursor, store.shape[1]) THEN "IndexError"
    ELSE IF ~Broadcastable(datum.shape, ViewShape(ckind, cursor, store.shape))
    THEN "RuntimeError"
    ELSE "ok"

RECURSIVE SetLeaves(_, _, _, _, _)
\* the leaves are written one after the other: a leaf that raises leaves
\* the leaves before it written
SetLeaves(storage, keys, ckind, cursor, data) ==
    IF keys = <<>> THEN [exc |-> "ok", storage |-> storage]
    ELSE LET k == Head(keys)
             e == SetLeafRaises(storage.leaves[k], ckind, cursor, data.leaves[k])
         IN  IF e # "ok" THEN [exc |-> e, storage |-> storage]
             ELSE SetLeaves([storage EXCEPT !.leaves[k] =
                               SetLeaf(@, ckind, cursor, data.leaves[k],
                                       data.batched)],
                            Tail(keys), ckind, cursor, data)

\* TensorStorage._set_tree_map (torch >= 2.3): tree_map(set_tensor, data,
\* storage) raises on trees of different structure before it writes
_set_tree_map(cursor, ckind, data, storage) ==
    IF data.layout # storage.layout \/ DOMAIN data.leaves # DOMAIN storage.leaves
    THEN [exc |-> "ValueError", storage |-> storage]
    ELSE SetLeaves(storage, KeysOf(data.leaves), ckind, cursor, data)

\* self._storage[cursor] = data for a tensordict record: on a tensordict
\* buffer the batch size of the record must be, or expand to, the batch
\* size of the indexed view, and the fields of the record are written one
\* by one; a tensor or a tuple does not take a tensordict
SetTensorDict(cursor, ckind, data, storage) ==
    IF storage.layout # "tensordict"
    THEN [exc |-> "TypeError", storage |-> storage]
    ELSE IF IndexRaises(ckind, cursor, storage.batch_size[1])
    THEN [exc |-> "IndexError", storage |-> storage]
    ELSE LET indexed_bs == ViewShape(ckind, cursor, storage.batch_size)
             nb == Len(data.batch_size)
         IN  IF /\ data.batch_size # indexed_bs
                /\ data.batch_size # Suffix(indexed_bs, Len(indexed_bs) - nb)
             THEN [exc |-> "RuntimeError", storage |-> storage]
             ELSE SetLeaves(storage, KeysOf(data.leaves), ckind, cursor, data)

\* the item the buffers are allocated from: data itself for an integer
\* cursor, data[0] otherwise
FirstItem(data, int_cursor) ==
    IF int_cursor THEN data
    ELSE [data EXCEPT
            !.batch_size = IF @ = <<>> THEN @ ELSE Tail(@),
            !.batched = FALSE,
            !.leaves = [k \in DOMAIN data.leaves |->
                          Leaf(Tail(data.leaves[k].shape), data.leaves[k].dtype,
                               <<data.leaves[k].rows[1]>>)]]

\* whether data[0] raises: the batch is empty, or has no leading axis
FirstItemRaises(data, int_cursor) ==
    /\ ~int_cursor
    /\ \E k \in DOMAIN data.leaves :
          data.leaves[k].shape = <<>> \/ data.leaves[k].shape[1] = 0

\* TensorStorage.set (torch >= 2.0): the length is updated first (when
\* set_cursor), the buffers are allocated when the storage is not
\* initialized, then the record is written
TensorStorage_set(self, ckind, cursor, data, set_cursor) ==
    LET int_cursor == ckind = "int"
        s1 == IF set_cursor THEN _get_new_len(self, data, int_cursor) ELSE self
        raises == ~s1.initialized /\ FirstItemRaises(data, int_cursor)
        s2 == IF s1.initialized \/ raises THEN s1
              ELSE _init(s1, FirstItem(data, int_cursor))
        inits == IF s1.initialized \/ raises THEN 0 ELSE 1
        w == IF raises THEN [exc |-> "IndexError", storage |-> s1._storage]
             ELSE IF is_tensor_collection([type |-> data.layout])
             THEN SetTensorDict(cursor, ckind, data, s2._storage)
             ELSE _set_tree_map(cursor, ckind, data, s2._storage)
    IN  [exc |-> w.exc, self |-> [s2 EXCEPT !._storage = w.storage],
         ret |-> None, inits |-> inits]

\* the length along axis 0 that a length and a total shape give
LenAlongDim0(self, length, total_shape) ==
    IF self.ndim > 1 THEN CeilDiv(length, Numel(Tail(total_shape)))
    ELSE length

\* TensorStorage._total_shape: (the storage after the call, the value).
\* The first call on an initialized storage caches the shape of the first
\* ndim axes and assigns self._len the element count of whole rows.
_total_shape(self) ==
    IF self._total_shape_value = None /\ self.initialized
    THEN LET ts == Prefix(DataShape(self._storage), self.ndim)
             n0 == LenAlongDim0(self, _len(self), ts)
         IN  [self |-> [self EXCEPT
                          !._total_shape_value = [type |-> "Size", size |-> ts],
                          !._len_value = Numel(<<n0>> \o Tail(ts))],
              value |-> [type |-> "Size", size |-> ts]]
    ELSE [self |-> self, value |-> self._total_shape_value]

\* TensorStorage._len_along_dim0: (the storage after the call, the value);
\* the value is None for an ndim > 1 storage without a total shape
_len_along_dim0(self) ==
    IF self.ndim > 1
    THEN LET t == _total_shape(self)
         IN  IF t.value # None
             THEN [self |-> t.self, none |-> FALSE,
                   value |-> CeilDiv(_len(self), Numel(Tail(t.value.size)))]
             ELSE [self |-> t.self, none |-> TRUE, value |-> 0]
    ELSE [self |-> self, none |-> FALSE, value |-> _len(self)]

\* TensorStorage._is_full
_is_full(self) == _len(self) = self.max_size

\* storage[index] on the first n rows of every leaf
GetRows(storage, n, ckind, index) ==
    LET pos == Positions(ckind, index, n)
    IN  Record(storage.layout,
               IF storage.layout = "tensordict"
               THEN ViewShape(ckind, index, <<n>> \o Tail(storage.batch_size))
               ELSE <<>>,
               ckind # "int",
               [k \in DOMAIN storage.leaves |->
                  Leaf(ViewShape(ckind, index, <<n>> \o Tail(storage.leaves[k].shape)),
                       storage.leaves[k].dtype,
                       [j \in 1..Len(pos) |-> storage.leaves[k].rows[pos[j] + 1]])])

\* TensorStorage.get as it would be if a storage without buffers were read
\* as an empty one
TensorStorage_get_unguarded(self, ckind, index) ==
    IF ~self.initialized
    THEN IF IndexRaises(ckind, index, 0) THEN Raises(self, "IndexError")
         ELSE Returns(self, None)
    ELSE LET l == IF _is_full(self)
                  THEN [self |-> self, none |-> FALSE,
                        value |-> DataShape(self._storage)[1]]
                  ELSE _len_along_dim0(self)
             n == Min(l.value, DataShape(self._storage)[1])
         IN  IF IndexRaises(ckind, index, n) THEN Raises(l.self, "IndexError")
             ELSE Returns(l.self, GetRows(self._storage, n, ckind, index))

\* TensorStorage.get (LazyMemmapStorage.get calls it): a storage that is
\* not full is first sliced down to its length along axis 0
TensorStorage_get(self, ckind, index) ==
    IF ~self.initialized THEN Raises(self, "RuntimeError")
    ELSE LET l == IF _is_full(self)
                  THEN [self |-> self, none |-> FALSE,
                        value |-> DataShape(self._storage)[1]]
                  ELSE _len_along_dim0(self)
             n == Min(l.value, DataShape(self._storage)[1])
         IN  IF IndexRaises(ckind, index, n) THEN Raises(l.self, "IndexError")
             ELSE Returns(l.self, GetRows(self._storage, n, ckind, index))

\* TensorStorage.__len__
TensorStorage_len(self) == _len(self)

\* TensorStorage._empty as it would be if it released the buffers
TensorStorage_empty_released(self) ==
    Returns([self EXCEPT !._len_value = 0, !._storage = None,
                         !.initialized = FALSE], None)

\* TensorStorage._empty: the length is reset, the buffers are kept
TensorStorage_empty(self) == Returns([self EXCEPT !._len_value = 0], None)

\* TensorStorage.contains with an integer item.  In 0 <= item < n the
\* length n is read only when 0 <= item; a length of None (ndim > 1 without
\* a total shape) is a TypeError where it is added or compared
TensorStorage_contains(self, item) ==
    LET l1 == _len_along_dim0(self)
        wraps == item < 0
        it == IF wraps THEN item + l1.value ELSE item
        s1 == IF wraps THEN l1.self ELSE self
        l2 == _len_along_dim0(s1)
    IN  IF wraps /\ l1.none THEN Raises(l1.self, "TypeError")
        ELSE IF ~(0 <= it) THEN Returns(s1, Bool(FALSE))
        ELSE IF l2.none THEN Raises(l2.self, "TypeError")
        ELSE Returns(l2.self, Bool(it < l2.value))

\* TensorStorage.state_dict / LazyMemmapStorage.state_dict: a pytree that
\* is neither a tensor nor a tensordict is a TypeError
TensorStorage_state_dict(self) ==
    IF self._storage # None /\ self._storage.layout = "pytree"
    THEN Raises(self, "TypeError")
    ELSE Returns(self,
                 [type |-> "state_dict",
                  _storage |-> IF self._storage = None
                               THEN [type |-> "dict"] ELSE self._storage,
                  initialized |-> self.initialized,
                  _len |-> _len(self)])

\* tensor.copy_(other): the shapes must broadcast, the element type of
\* the destination is kept
CopyLeaf(dst, src) == [dst EXCEPT !.rows = src.rows]

\* TensorStorage.load_state_dict / LazyMemmapStorage.load_state_dict: the
\* contents are copied onto the buffers (or adopted by a storage without
\* buffers), then initialized and _len are taken from the mapping.  The
\* empty mapping an uninitialized storage reports is refused: by the
\* RuntimeError of the method on tensor and pytree buffers, by tensordict's
\* load_state_dict otherwise (it has no "__batch_size" entry: KeyError)
TensorStorage_load_state_dict(self, state_dict) ==
    LET src == state_dict._storage
        done(st) == Returns([[self EXCEPT !._storage = st]
                               EXCEPT !.initialized = state_dict.initialized,
                                      !._len_value = state_dict._len],
                            None)
    IN  IF src.type = "record" /\ src.layout = "tensor"
        THEN IF self._storage = None THEN done(src)
             ELSE IF self._storage.layout # "tensor"
             THEN Raises(self, "RuntimeError")
             ELSE IF ~Broadcastable(src.leaves.a.shape, self._storage.leaves.a.shape)
             THEN Raises(self, "RuntimeError")
             ELSE done([self._storage EXCEPT !.leaves.a = CopyLeaf(@, src.leaves.a)])
        ELSE IF src.type = "record" /\ src.layout = "tensordict"
        THEN IF self._storage = None THEN done(src)
             ELSE IF self._storage.layout # "tensordict"
             THEN Raises(self, "RuntimeError")
             ELSE done([self._storage EXCEPT
                          !.batch_size = src.batch_size,
                          !.leaves = [k \in DOMAIN @ |->
                                        IF k \in DOMAIN src.leaves
                                        THEN src.leaves[k] ELSE @[k]]])
        ELSE IF src.type = "dict"
        THEN IF self._storage # None /\ self._storage.layout # "tensordict"
             THEN Raises(self, "RuntimeError")
             ELSE Raises(self, "KeyError")
        ELSE Raises(self, "TypeError")

(***************************************************************************)
(* The length counter and pickling.  TensorStorage._len is a property over *)
(* the attribute _len_value: an mp.Value("i") read and written through     *)
(* .value when the storage is not compilable, a plain int otherwise.  The  *)
(* model keeps the number in _len_value and the class of the object that   *)
(* holds it in _len_class.                                                 *)
(***************************************************************************)
\* the exception raised where self._len is read and used as a number: a
\* storage that is not compilable reads _len_value.value (an int has no
\* attribute value); a compilable one returns _len_value itself, and an
\* mp.Value is neither an int for len() nor an operand of + and ==
LenFault(self) ==
    IF ~self._compilable /\ self._len_class = "int" THEN "AttributeError"
    ELSE IF self._compilable /\ self._len_class = "Value" THEN "TypeError"
    ELSE "ok"

\* the setter of TensorStorage._len: a storage that is not compilable
\* assigns _len_value.value, a compilable one rebinds _len_value to the int
SetLen(self, value) ==
    IF ~self._compilable
    THEN IF self._len_class = "int" THEN Raises(self, "AttributeError")
         ELSE Returns([self EXCEPT !._len_value = value], None)
    ELSE Returns([self EXCEPT !._len_value = value, !._len_class = "int"], None)

\* TensorStorage.__len__ as a call: len(storage)
TensorStorage___len__(self) ==
    IF LenFault(self) # "ok" THEN Raises(self, LenFault(self))
    ELSE Returns(self, TensorStorage_len(self))

\* assert_is_sharable of __getstate__ on a leaf of the given device
assert_is_sharable(dev) == dev \in {"none", "cuda", "cpu", "meta"}

\* the device of the leaves of the buffers: _init allocates every leaf on
\* self.device, and a buffer handed to TensorStorage.__init__ is taken to
\* live on the device the storage is constructed with
LeafDevice(self, k) == self.device

\* Storage.__getstate__: a copy of the attributes (_rng, which no method of
\* the model reads, is left out)
Storage_getstate(self) == self

\* TensorStorage.__getstate__.  Outside the spawning of a process the
\* length is read and replaces _len_value under the key len__context.
\* While a process is spawned the storage must be initialized and its leaves
\* shareable: a tensordict is checked with apply; for any other buffer the
\* call is tree_map(storage, assert_is_sharable), which calls the storage
\* as the function of tree_map
TensorStorage_getstate(self, spawning) ==
    LET state == Storage_getstate(self)
    IN  IF ~spawning
        THEN IF ~self._compilable /\ self._len_class = "int"
             THEN Raises(self, "AttributeError")
             ELSE Returns(self,
                          [k \in DOMAIN state \ {"_len_value", "_len_class"} |->
                              state[k]]
                            @@ [len__context |->
                                  [class |-> IF self._compilable
                                             THEN self._len_class ELSE "int",
                                   value |-> self._len_value]])
        ELSE IF ~self.initialized THEN Raises(self, "RuntimeError")
        ELSE IF is_tensor_collection([type |-> self._storage.layout])
        THEN IF \E k \in DOMAIN self._storage.leaves :
                   ~assert_is_sharable(LeafDevice(self, k))
             THEN Raises(self, "RuntimeError")
             ELSE Returns(self, state)
        ELSE Raises(self, "TypeError")

\* TensorStorage.__setstate__ on the object pickle creates: the attributes
\* are the entries of the state; a len__context entry becomes _len_value,
\* as it is when _compilable is False and wrapped in an mp.Value("i")
\* (which takes an int) when it is True
TensorStorage_setstate(state) ==
    IF "len__context" \in DOMAIN state
    THEN LET ctx == state.len__context
             attrs == [k \in DOMAIN state \ {"len__context"} |-> state[k]]
         IN  IF ~state._compilable
             THEN Returns(attrs @@ [_len_value |-> ctx.value,
                                    _len_class |-> ctx.class], None)
             ELSE IF ctx.class # "int" THEN Raises(None, "TypeError")
             ELSE Returns(attrs @@ [_len_value |-> ctx.value,
                                    _len_class |-> "Value"], None)
    ELSE Returns(state, None)

\* Storage._attached_entities: the list of the attribute
\* _attached_entities_list, which the getter makes when the attribute is
\* missing (StorageEnsemble.__init__ does not call Storage.__init__)
_attached_entities(entities) == IF entities = None THEN <<>> ELSE entities.items

\* Storage.attach as it would be without the membership test
Storage_attach_always(entities, buffer) ==
    List(Append(_attached_entities(entities), buffer))

\* Storage.attach: the buffer is appended unless it is in the list; the
\* call reads and writes no other attribute
Storage_attach(entities, buffer) ==
    IF \E k \in 1..Len(_attached_entities(entities)) :
           _attached_entities(entities)[k] = buffer
    THEN List(_attached_entities(entities))
    ELSE List(Append(_attached_entities(entities), buffer))

\* torch.Size(shape)
Size(shape) == [type |-> "Size", size |-> shape]

\* TensorStorage.shape: the total shape when the storage is full, else the
\* total shape with the length along axis 0 in place of its first entry,
\* None while there is no total shape.  Both _is_full and _len_along_dim0
\* read len(self); _total_shape may assign it
TensorStorage_shape(self) ==
    IF LenFault(self) # "ok" THEN Raises(self, LenFault(self))
    ELSE LET t == _total_shape(self)
         IN  IF _is_full(self) THEN Returns(t.self, t.value)
             ELSE IF t.value = None THEN Returns(t.self, None)
             ELSE Returns(_len_along_dim0(t.self).self,
                          Size(<<_len_along_dim0(t.self).value>>
                                 \o Tail(t.value.size)))

(***************************************************************************)
(* The arguments the calls are explored with.                              *)
(***************************************************************************)
ItemA == Tensor(<<2>>, "uint8", "cpu", <<1, 1>>)

ItemB == Tensor(<<1, 2>>, "int16", "cuda", <<258, 3>>)

\* a tensordict of batch size [2] with an array field and a non-array field
ItemC ==
    TensorDict([obs |-> Tensor(<<2, 1>>, "uint8", "cpu", <<5, 6>>),
                tag |-> NonTensor("s")], <<2>>)

\* a tensordict without batch dimensions
ItemD == TensorDict([obs |-> Tensor(<<2>>, "int16", "cpu", <<7, 7>>)], <<>>)

ItemE == Other("seven")

\* the items written to a storage of the given class
Items(k) ==
    IF k = "CompressedListStorage" THEN {ItemA, ItemB, ItemC, ItemD, ItemE}
    ELSE {ItemA, ItemB}

\* the Python lists of at most n items
Lists(S, n) == UNION {[1..m -> S] : m \in 0..n}

\* cursors and indices as arguments: an integer, a slice or a list of
\* integers
IntC(i) == [type |-> "int", i |-> i]

Indices(idx) == [type |-> "list", idx |-> idx]

\* the Python value of a cursor
Raw(c) == IF c.type = "int" THEN c.i ELSE IF c.type = "list" THEN c.idx ELSE c

\* integer cursors: one below zero, and up to the largest capacity
IntCursors == {IntC(i) : i \in -1..MaxCap}

\* slice cursors
SliceCursors(self) ==
    {Slice(0, 0, 1), Slice(0, 1, 1), Slice(1, self.max_size, 1),
     Slice(0, self.max_size + MaxOver, 1), Slice(0, self.max_size, 2)}

\* index-list cursors: runs of consecutive indices, as a writer hands them
\* out, and one run in reverse order
ListCursors(self) ==
    {Indices([k \in 1..m |-> a + k - 1]) :
        a \in 0..Min(self.max_size, MaxCap), m \in 1..MaxBatch}
      \cup {Indices(<<1, 0>>)}

\* the symbols that stand for the contents of one position
Vals == {"x", "y"}

\* the shapes of the records written to tensor storages: per leaf, the
\* feature shape and the element type
Shapes ==
    [K1 |-> [layout |-> "tensor",
             leaves |-> [a |-> [feat |-> <<2>>, dtype |-> "float32"]]],
     K2 |-> [layout |-> "tensor",
             leaves |-> [a |-> [feat |-> <<1>>, dtype |-> "float32"]]],
     K3 |-> [layout |-> "tensor",
             leaves |-> [a |-> [feat |-> <<2>>, dtype |-> "int64"]]],
     K4 |-> [layout |-> "pytree",
             leaves |-> [a |-> [feat |-> <<2>>, dtype |-> "float32"],
                         b |-> [feat |-> <<>>, dtype |-> "float32"]]],
     K5 |-> [layout |-> "pytree",
             leaves |-> [a |-> [feat |-> <<2>>, dtype |-> "float32"]]],
     K6 |-> [layout |-> "tensordict",
             leaves |-> [a |-> [feat |-> <<2>>, dtype |-> "float32"],
                         b |-> [feat |-> <<>>, dtype |-> "float32"]]]]

\* the shapes a storage without buffers is first written with: a tensor, a
\* tuple of tensors and a tensordict.  A file-backed storage is written
\* with tensordicts: LazyMemmapStorage._init allocates them as
\* LazyTensorStorage._init does, and other records through _init_pytree,
\* which is not part of storages.py
Templates(self) ==
    IF self.kind = "LazyMemmapStorage" THEN {"K6"} ELSE {"K1", "K4", "K6"}

\* the row shape of the records of an ndim-dimensional storage: the
\* leading ndim - 1 axes of a single item
RowDims(nd) == IF nd > 1 THEN <<2>> ELSE <<>>

\* a single item of shape sh for a storage of nd dimensions, holding v
SingleRecord(sh, nd, v) ==
    Record(sh.layout, IF sh.layout = "tensordict" THEN RowDims(nd) ELSE <<>>,
           FALSE,
           [k \in DOMAIN sh.leaves |->
              Leaf(RowDims(nd) \o sh.leaves[k].feat, sh.leaves[k].dtype, <<v>>)])

\* a batch of Len(vs) items, holding vs
BatchRecord(sh, nd, vs) ==
    Record(sh.layout,
           IF sh.layout = "tensordict" THEN <<Len(vs)>> \o RowDims(nd) ELSE <<>>,
           TRUE,
           [k \in DOMAIN sh.leaves |->
              Leaf(<<Len(vs)>> \o RowDims(nd) \o sh.leaves[k].feat,
                   sh.leaves[k].dtype, vs)])

\* the shapes among Shapes that the buffers of a storage have
ShapeOf(self) ==
    IF self._storage = None THEN {}
    ELSE {n \in DOMAIN Shapes :
            /\ Shapes[n].layout = self._storage.layout
            /\ DOMAIN Shapes[n].leaves = DOMAIN self._storage.leaves
            /\ \A k \in DOMAIN Shapes[n].leaves :
                  /\ Shapes[n].leaves[k].dtype = self._storage.leaves[k].dtype
                  /\ Suffix(self._storage.leaves[k].shape, self.ndim) =
                         Shapes[n].leaves[k].feat}

\* the batches of values of a batch record: the two values in turn
Batches == {[k \in 1..m |-> IF k % 2 = 1 THEN "x" ELSE "y"] : m \in 1..MaxBatch}

\* the shapes of the records a writer hands to a storage: one of Templates
\* while the storage is not initialized, the shape of the buffers afterwards
WriterShapes(self) ==
    IF self.initialized THEN ShapeOf(self) ELSE Templates(self)

SingleRecords(self) ==
    {SingleRecord(Shapes[n], self.ndim, v) : n \in WriterShapes(self), v \in Vals}

BatchRecords(self) ==
    {BatchRecord(Shapes[n], self.ndim, vs) :
        n \in WriterShapes(self), vs \in Batches}

\* one record of every shape the buffers of an initialized storage do not
\* have
OtherRecords(self) ==
    IF self.initialized
    THEN {SingleRecord(Shapes[n], self.ndim, "x") :
             n \in DOMAIN Shapes \ ShapeOf(self)}
    ELSE {}

\* the lists of items handed to a list-backed storage with a slice or an
\* index list: ItemA, ItemB, ItemA, ... up to MaxBatch items
ItemLists ==
    {List([k \in 1..m |-> IF k % 2 = 1 THEN ItemA ELSE ItemB]) : m \in 0..MaxBatch}

\* widest second axis of the buffers a TensorStorage is constructed from
MaxCols == 4

\* a buffer of leading shape [a, b] and of the record shape sh: one symbol
\* per position of axis 0
Buffer(sh, a, b) ==
    Record(sh.layout, IF sh.layout = "tensordict" THEN <<a, b>> ELSE <<>>, TRUE,
           [k \in DOMAIN sh.leaves |->
              Leaf(<<a, b>> \o sh.leaves[k].feat, sh.leaves[k].dtype,
                   [r \in 1..a |-> IF r % 2 = 1 THEN "x" ELSE "y"])])

\* the buffers a TensorStorage is constructed from: a tensor, a tuple of
\* tensors and a tensordict
Buffers ==
    {Buffer(Shapes[n], a, b) :
        n \in {"K1", "K4", "K6"}, a \in 1..MaxCap, b \in 1..MaxCols}

\* the integers contains is called with
ContainsArgs == -(MaxCap + 1)..MaxCap

SetCall(cursor, data, set_cursor) ==
    [cursor |-> cursor, data |-> data, set_cursor |-> set_cursor]

\* the calls of set that are explored: a scalar cursor with and without
\* set_cursor, a slice or an index list with the default set_cursor=True
SetArgs(self) ==
    IF self.kind \in ListKinds
    THEN {SetCall(c, d, sc) :
             c \in IntCursors, d \in Items(self.kind), sc \in BOOLEAN}
           \cup {SetCall(c, d, TRUE) :
                   c \in SliceCursors(self) \cup ListCursors(self), d \in ItemLists}
           \cup {SetCall(Indices(<<0>>), ItemE, TRUE)}
    ELSE {SetCall(c, d, sc) :
             c \in IntCursors, d \in SingleRecords(self), sc \in BOOLEAN}
           \cup {SetCall(IntC(0), d, TRUE) : d \in OtherRecords(self)}
           \cup {SetCall(c, d, TRUE) :
                   c \in {Slice(0, 1, 1)} \cup ListCursors(self),
                   d \in BatchRecords(self)}

\* the indices get is called with
GetArgs(self) == IntCursors \cup SliceCursors(self) \cup ListCursors(self)

(***************************************************************************)
(* The state machine.  A behaviour is followed up to the second run of     *)
(* _init on the storage (n_init = 2).                                      *)
(***************************************************************************)
\* the constructor arguments of the list-backed storages
ListConfigs ==
    {[kind |-> "ListStorage", max_size |-> MaxCap, device |-> "cpu", ndim |-> 1],
     [kind |-> "LazyStackStorage", max_size |-> MaxCap - 1, device |-> "none",
      ndim |-> 1],
     [kind |-> "CompressedListStorage", max_size |-> MaxCap - 1, device |-> "cpu",
      ndim |-> 1]}

\* the constructor arguments of the ndim = 1 tensor storages
TensorConfigs ==
    {[kind |-> k, max_size |-> MaxCap - 1, device |-> "cpu", ndim |-> 1] :
        k \in TensorKinds}

\* the constructor arguments of the ndim = 2 tensor storage
GridConfigs ==
    {[kind |-> "LazyTensorStorage", max_size |-> MaxCap, device |-> "cpu",
      ndim |-> 2]}

Configs == ListConfigs \cup TensorConfigs \cup GridConfigs

\* the constructor arguments of the storages that are pickled
ShareConfigs ==
    {[kind |-> "LazyTensorStorage", max_size |-> MaxCap - 1, device |-> d,
      ndim |-> 1, compilable |-> b] : d \in {"cpu", "mps"}, b \in BOOLEAN}

\* the compilable argument of a constructor, False when it is not given
Compilable(c) == IF "compilable" \in DOMAIN c THEN c.compilable ELSE FALSE

\* the object __init__ leaves: ListStorage.__init__,
\* CompressedListStorage.__init__, TensorStorage.__init__ with storage=None
New(c) ==
    [kind |-> c.kind, max_size |-> c.max_size, device |-> c.device,
     ndim |-> c.ndim, initialized |-> FALSE,
     _storage |-> IF c.kind \in ListKinds THEN <<>> ELSE None,
     _metadata |-> <<>>, _len_value |-> 0,
     _len_class |-> LenClass(Compilable(c)), _compilable |-> Compilable(c),
     _total_shape_value |-> None]

\* the generators of an object: its own (Storage._rng, a class attribute
\* that is None, written "none"; StorageEnsemble._rng_private) and, for an
\* ensemble, those of its members in turn
Generators(value, members) == [value |-> value, members |-> members]

RECURSIVE NoRng(_)
\* the generators after construction: none anywhere
NoRng(storage) ==
    IF storage.kind = "StorageEnsemble"
    THEN Generators("none", [k \in 1..Len(storage._storages) |->
                               NoRng(storage._storages[k])])
    ELSE Generators("none", <<>>)

\* a storage that no worker process was handed
NoWorkers == [start |-> 0, procs |-> <<>>]

\* the state after the construction of a storage with arguments among cs
Constructed(cs) ==
    \E c \in cs :
        /\ kind = New(c).kind
        /\ max_size = New(c).max_size
        /\ device = New(c).device
        /\ ndim = New(c).ndim
        /\ initialized = New(c).initialized
        /\ _storage = New(c)._storage
        /\ _metadata = New(c)._metadata
        /\ _len_value = New(c)._len_value
        /\ _len_class = New(c)._len_class
        /\ _compilable = New(c)._compilable
        /\ _total_shape_value = New(c)._total_shape_value
        /\ _storages = <<>>
        /\ _transforms = None
        /\ _rng = NoRng(New(c))
        /\ _attached_entities_list = List(<<>>)
        /\ workers = NoWorkers
        /\ slots = {}
        /\ n_init = 0
        /\ last = [op |-> "__init__", exc |-> "ok"]

\* the state after the construction of the storage object o
StartsAs(o) ==
    /\ kind = o.kind
    /\ max_size = o.max_size
    /\ device = o.device
    /\ ndim = o.ndim
    /\ initialized = o.initialized
    /\ _storage = o._storage
    /\ _metadata = o._metadata
    /\ _len_value = o._len_value
    /\ _len_class = o._len_class
    /\ _compilable = o._compilable
    /\ _total_shape_value = o._total_shape_value
    /\ _storages = <<>>
    /\ _transforms = None
    /\ _rng = NoRng(o)
    /\ _attached_entities_list = List(<<>>)
    /\ workers = NoWorkers
    /\ slots = {}
    /\ n_init = 0
    /\ last = [op |-> "__init__", exc |-> "ok"]

\* TensorStorage(storage, ndim=nd) for the buffers above
BufferStorages ==
    {TensorStorage_init(storage, "cpu", nd) : storage \in Buffers, nd \in 1..2}

InitBuffer == \E o \in BufferStorages : StartsAs(o)

Init == Constructed(Configs)

InitList == Constructed(ListConfigs)

InitTensor == Constructed(TensorConfigs)

InitGrid == Constructed(GridConfigs)

InitShare == Constructed(ShareConfigs)

InitCompressed ==
    Constructed({c \in ListConfigs : c.kind = "CompressedListStorage"})

\* the variables of the object take the fields of the object a call leaves
Takes(self) ==
    /\ max_size' = self.max_size
    /\ device' = self.device
    /\ initialized' = self.initialized
    /\ _storage' = self._storage
    /\ _metadata' = self._metadata
    /\ _len_value' = self._len_value
    /\ _len_class' = self._len_class
    /\ _total_shape_value' = self._total_shape_value
    /\ UNCHANGED <<kind, ndim, _compilable, _storages, _transforms, _rng,
                   _attached_entities_list,
                   workers>>

\* the same for a call whose writes are not recorded
Becomes(self) == Takes(self) /\ UNCHANGED slots

\* self.set(cursor, data, set_cursor=set_cursor), by the class of self.
\* With set_cursor, TensorStorage.set starts with _get_new_len, which reads
\* self._len before anything is assigned
set(self, ckind, cursor, data, set_cursor) ==
    IF self.kind \in ListKinds
    THEN ListStorage_set(self, ckind, cursor, data, set_cursor)
    ELSE IF set_cursor /\ LenFault(self) # "ok" THEN Raises(self, LenFault(self))
    ELSE TensorStorage_set(self, ckind, cursor, data, set_cursor)

\* self.get(index), by the class of self
get(self, ckind, index) ==
    IF self.kind = "LazyStackStorage" THEN LazyStackStorage_get(self, ckind, index)
    ELSE IF self.kind \in ListKinds THEN ListStorage_get(self, ckind, index)
    ELSE TensorStorage_get(self, ckind, index)

\* len(self), by the class of self
len(self) ==
    IF self.kind \in ListKinds THEN ListStorage_len(self)
    ELSE TensorStorage_len(self)

\* len(self) as a call, by the class of self
__len__(self) ==
    IF self.kind \in ListKinds THEN Returns(self, ListStorage_len(self))
    ELSE TensorStorage___len__(self)

\* self._empty(), by the class of self; TensorStorage._empty assigns
\* self._len through the setter
_empty(self) ==
    IF self.kind \in ListKinds THEN ListStorage_empty(self)
    ELSE IF SetLen(self, 0).exc # "ok" THEN SetLen(self, 0)
    ELSE TensorStorage_empty(SetLen(self, 0).self)

\* torch.randint(low, high, (n,), generator=...): n integers of [low, high),
\* draw being the n numbers the generator yields; the bounds are checked
\* whatever n is
randint(low, high, draw) ==
    IF high <= low THEN [raises |-> TRUE, value |-> <<>>]
    ELSE [raises |-> FALSE,
          value |-> [k \in 1..Len(draw) |-> low + (draw[k] % (high - low))]]

\* a tensor of indices
LongTensor(idx) == [type |-> "LongTensor", idx |-> idx]

\* Storage._rand_given_ndim with the indices drawn below max_size
Storage_rand_given_ndim_capacity(self, batch_size, draws) ==
    IF self.ndim = 1
    THEN Returns(self, LongTensor(randint(0, self.max_size, draws[1]).value))
    ELSE Raises(self, "RuntimeError")

\* Storage._rand_given_ndim: batch_size indices below len(self) when
\* ndim = 1, draws[1] being what the generator yields
Storage_rand_given_ndim(self, batch_size, draws) ==
    IF self.ndim = 1
    THEN IF randint(0, len(self), draws[1]).raises
         THEN Raises(self, "RuntimeError")
         ELSE Returns(self, LongTensor(randint(0, len(self), draws[1]).value))
    ELSE Raises(self, "RuntimeError")

\* TensorStorage._rand_given_ndim_impl (called by _rand_given_ndim): for
\* ndim > 1 a tuple of index tensors, one for every entry of self.shape;
\* a shape of None cannot be iterated
TensorStorage_rand_given_ndim_impl(self, batch_size, draws) ==
    IF self.ndim = 1 THEN Storage_rand_given_ndim(self, batch_size, draws)
    ELSE LET sh == TensorStorage_shape(self)
         IN  IF sh.exc # "ok" THEN sh
             ELSE IF sh.ret = None THEN Raises(sh.self, "TypeError")
             ELSE IF \E k \in 1..Len(sh.ret.size) :
                        randint(0, sh.ret.size[k], draws[k]).raises
             THEN Raises(sh.self, "RuntimeError")
             ELSE Returns(sh.self,
                          [type |-> "tuple",
                           items |-> [k \in 1..Len(sh.ret.size) |->
                                        LongTensor(randint(0, sh.ret.size[k],
                                                           draws[k]).value)]])

\* self._rand_given_ndim(batch_size), by the class of self; len(self) of a
\* TensorStorage reads the length counter
_rand_given_ndim(self, batch_size, draws) ==
    IF self.kind \in ListKinds
    THEN Storage_rand_given_ndim(self, batch_size, draws)
    ELSE IF LenFault(self) # "ok" THEN Raises(self, LenFault(self))
    ELSE TensorStorage_rand_given_ndim_impl(self, batch_size, draws)

\* self.contains(item), by the class of self
contains(self, item) ==
    IF self.kind \in ListKinds THEN ListStorage_contains(self, item)
    ELSE TensorStorage_contains(self, item)

\* self.state_dict(), by the class of self
state_dict(self) ==
    IF self.kind = "CompressedListStorage"
    THEN CompressedListStorage_state_dict(self)
    ELSE IF self.kind \in ListKinds THEN ListStorage_state_dict(self)
    ELSE TensorStorage_state_dict(self)

\* self.load_state_dict(state_dict), by the class of self
load_state_dict(self, sd) ==
    IF self.kind = "CompressedListStorage"
    THEN CompressedListStorage_load_state_dict(self, sd)
    ELSE IF self.kind \in ListKinds THEN ListStorage_load_state_dict(self, sd)
    ELSE TensorStorage_load_state_dict(self, sd)

(***************************************************************************)
(* StorageEnsemble.  The object keeps the member storages and, when given, *)
(* one transform (or None, written "none") per member.  __init__ does not  *)
(* call Storage.__init__: the object has no max_size.                      *)
(***************************************************************************)
\* the ensemble the variables describe
Ensemble ==
    [kind |-> kind, _storages |-> _storages, _transforms |-> _transforms]

\* StorageEnsemble.__init__: one transform per storage, or a TypeError
StorageEnsemble_init(storages, transforms) ==
    IF transforms # None /\ Len(transforms.items) # Len(storages)
    THEN Raises(None, "TypeError")
    ELSE Returns([kind |-> "StorageEnsemble", _storages |-> storages,
                  _transforms |-> transforms], None)

\* the _rng setter with the loop over the members left out
StorageEnsemble_rng_private_only(self, rng, value) == [rng EXCEPT !.value = value]

RECURSIVE StorageEnsemble_rng_setter(_, _, _)
\* storage._rng = value.  On a StorageEnsemble the property setter stores
\* the value in _rng_private and assigns storage._rng of every member, in
\* turn a setter call when the member is an ensemble; on any other storage
\* the assignment makes the instance attribute
StorageEnsemble_rng_setter(self, rng, value) ==
    IF self.kind = "StorageEnsemble"
    THEN Generators(value,
                    [k \in 1..Len(self._storages) |->
                       StorageEnsemble_rng_setter(self._storages[k],
                                                  rng.members[k], value)])
    ELSE Generators(value, <<>>)

\* the index slice(None)
FullSlice == [type |-> "slice(None)"]

\* what __getitem__ returns: the ensemble itself, the member object at a
\* position of _storages, or a new ensemble; the members of the latter are
\* the objects at the given positions of the indexed one
Itself == [type |-> "self"]

Member(at) == [type |-> "member", at |-> at]

SubEnsemble(members, transforms) ==
    [type |-> "StorageEnsemble", members |-> members, transforms |-> transforms]

\* the positions a slice of a sequence of n items takes
SlicePositions(sl, n) ==
    LET ix == SliceIndices(sl, n) IN Range(ix.start, ix.stop, ix.step)

\* the transforms of the first members, whatever the index
StorageEnsemble_first_transforms(self, idx) ==
    IF self._transforms # None
    THEN List([k \in 1..Len(idx) |-> self._transforms.items[k]])
    ELSE List([k \in 1..Len(idx) |-> "none"])

\* [self._transforms[i] for i in index], or self._transforms[index] for a
\* slice, idx being the positions the index takes; [None] * len(index)
\* when the ensemble has no transforms
StorageEnsemble_sub_transforms(self, idx) ==
    IF self._transforms # None
    THEN List([k \in 1..Len(idx) |->
                 self._transforms.items[PyIndex(Len(self._storages), idx[k]) + 1]])
    ELSE List([k \in 1..Len(idx) |-> "none"])

\* StorageEnsemble.__getitem__ for an index that is no tuple: an int,
\* slice(None), another slice, or a list of ints (a range and an integer
\* array or tensor of one dimension take the path of the list; the empty
\* list makes a floating point tensor)
StorageEnsemble_getitem(self, index) ==
    LET n == Len(self._storages)
    IN  IF index.type = "slice(None)" THEN Returns(self, Itself)
        ELSE IF index.type = "list" /\ index.idx = <<>>
        THEN Raises(self, "TypeError")
        ELSE IF index.type = "int"
        THEN IF PyIndexValid(n, index.i)
             THEN Returns(self, Member(PyIndex(n, index.i)))
             ELSE Raises(self, "IndexError")
        ELSE IF index.type = "list"
        THEN IF \E k \in 1..Len(index.idx) : ~PyIndexValid(n, index.idx[k])
             THEN Raises(self, "IndexError")
             ELSE Returns(self,
                          SubEnsemble([k \in 1..Len(index.idx) |->
                                         PyIndex(n, index.idx[k])],
                                      StorageEnsemble_sub_transforms(
                                          self, index.idx)))
        ELSE Returns(self,
                     SubEnsemble(SlicePositions(index, n),
                                 StorageEnsemble_sub_transforms(
                                     self, SlicePositions(index, n))))

\* the value a transform returns for a sample
Transform(t, sample) == [type |-> "transformed", by |-> t, sample |-> sample]

\* an item handed to StorageEnsemble.get: item.get("buffer_ids"),
\* item.get("index")
EnsembleItem(buffer_ids, index) ==
    [type |-> "item", buffer_ids |-> buffer_ids, index |-> index]

\* the tuple (buffer_id, sample)
Pair(buffer_id, sample) ==
    [type |-> "tuple", buffer_id |-> buffer_id, sample |-> sample]

RECURSIVE EnsembleSamples(_, _, _)
\* results.append((buffer_id, sample)) in front of what the rest of the
\* loop gives
EnsembleAppend(buffer_id, sample, rest) ==
    IF rest.exc # "ok" THEN rest
    ELSE Returns(rest.self, <<Pair(buffer_id, sample)>> \o rest.ret)

\* one turn of the first loop of StorageEnsemble.get, g being what get of
\* member k gave: an exception ends the loop, the member keeps what its
\* get left
EnsembleSample(self, k, g, buffer_ids, index) ==
    IF g.exc # "ok"
    THEN Raises([self EXCEPT !._storages[k] = g.self], g.exc)
    ELSE EnsembleAppend(Head(buffer_ids), g.ret,
                        EnsembleSamples([self EXCEPT !._storages[k] = g.self],
                                        Tail(buffer_ids), Tail(index)))

\* the first loop of StorageEnsemble.get: for every pair of zip(buffer_ids,
\* index), the member self._storages[buffer_id] is read with get(sample)
EnsembleSamples(self, buffer_ids, index) ==
    IF buffer_ids = <<>> \/ index = <<>> THEN Returns(self, <<>>)
    ELSE IF ~PyIndexValid(Len(self._storages), Head(buffer_ids))
    THEN Raises(self, "IndexError")
    ELSE EnsembleSample(
             self, PyIndex(Len(self._storages), Head(buffer_ids)) + 1,
             get(self._storages[PyIndex(Len(self._storages),
                                        Head(buffer_ids)) + 1],
                 "int", Head(index)),
             buffer_ids, index)

\* the second loop of StorageEnsemble.get: self._transforms[buffer_id] is
\* applied to the sample unless it is None
EnsembleTransforms(self, results) ==
    IF self._transforms = None THEN results
    ELSE [j \in 1..Len(results) |->
            LET t == self._transforms.items[
                         PyIndex(Len(self._transforms.items),
                                 results[j].buffer_id) + 1]
            IN  IF t # "none"
                THEN Pair(results[j].buffer_id, Transform(t, results[j].sample))
                ELSE results[j]]

\* StorageEnsemble.get
StorageEnsemble_get(self, item) ==
    LET r == EnsembleSamples(self, item.buffer_ids, item.index)
    IN  IF r.exc # "ok" THEN r
        ELSE Returns(r.self, List(EnsembleTransforms(r.self, r.ret)))

\* Storage.set, which StorageEnsemble inherits: Storage is a plain class,
\* its abstractmethod marks are not enforced, and the body of the method is
\* the ellipsis: the call returns None
Storage_set(self, cursor, data, set_cursor) == Returns(self, None)

\* StorageEnsemble.extend
StorageEnsemble_extend(self, value) == Raises(self, "RuntimeError")

\* StorageEnsemble.state_dict
StorageEnsemble_state_dict(self) == Raises(self, "NotImplementedError")

\* StorageEnsemble.load_state_dict
StorageEnsemble_load_state_dict(self, sd) == Raises(self, "NotImplementedError")

\* the storage a checkpoint is taken from: a new storage of the same class
\* and arguments after one record of shape n was written at cursor 0
Donor(self, n, v) ==
    LET c == CHOOSE c \in Configs : c.kind = self.kind /\ c.ndim = self.ndim
    IN  TensorStorage_set(New(c), "int", 0,
                          SingleRecord(Shapes[n], self.ndim, v), TRUE).self

\* the mappings load_state_dict is called with: the state_dict() of a new
\* storage, the state_dict() of a written one, and a mapping with the
\* contents of the latter whose "initialized" entry is False
Checkpoints(self) ==
    LET c == CHOOSE c \in Configs : c.kind = self.kind /\ c.ndim = self.ndim
        written == {TensorStorage_state_dict(Donor(self, n, "y")).ret :
                       n \in Templates(self) \ {"K4"}}
    IN  IF self.kind \in ListKinds
        THEN {state_dict(New(c)).ret,
              state_dict(ListStorage_set(New(c), "int", 0, ItemA, TRUE).self).ret}
        ELSE {TensorStorage_state_dict(New(c)).ret}
               \cup written
               \cup {[sd EXCEPT !.initialized = FALSE] : sd \in written}

\* the members of the ensembles: a ListStorage and a LazyTensorStorage with
\* ndim = 2
MemberConfigs ==
    <<[kind |-> "ListStorage", max_size |-> MaxCap - 1, device |-> "cpu",
       ndim |-> 1],
      [kind |-> "LazyTensorStorage", max_size |-> MaxCap, device |-> "cpu",
       ndim |-> 2]>>

\* StorageEnsemble(*storages) and StorageEnsemble(*storages,
\* transforms=[t0, None]) for new member storages
Ensembles ==
    {StorageEnsemble_init([k \in 1..Len(MemberConfigs) |-> New(MemberConfigs[k])],
                          t).self :
        t \in {None, List(<<"t0", "none">>)}}

\* the state after the construction of an ensemble; the attributes
\* Storage.__init__ would set are absent
InitEnsemble ==
    \E e \in Ensembles :
        /\ kind = e.kind
        /\ _storages = e._storages
        /\ _transforms = e._transforms
        /\ max_size = None
        /\ device = "none"
        /\ ndim = 1
        /\ initialized = None
        /\ _storage = None
        /\ _metadata = None
        /\ _len_value = None
        /\ _len_class = "none"
        /\ _compilable = None
        /\ _total_shape_value = None
        /\ _rng = NoRng(e)
        /\ _attached_entities_list = None
        /\ workers = NoWorkers
        /\ slots = {}
        /\ n_init = 0
        /\ last = [op |-> "__init__", exc |-> "ok"]

\* an ensemble of three members, the last one an ensemble of two, without
\* transforms and with transforms=[t0, None, t2]
NestedEnsembles ==
    LET inner == StorageEnsemble_init(
                     <<New(MemberConfigs[1]), New(MemberConfigs[1])>>, None).self
    IN  {StorageEnsemble_init(
             <<New(MemberConfigs[1]),
               New([MemberConfigs[2] EXCEPT !.ndim = 1, !.max_size = MaxCap - 1]),
               inner>>, t).self :
            t \in {None, List(<<"t0", "none", "t2">>)}}

\* the generators objects are given
Gens == {"none", "g1", "g2"}

\* the state after the construction of a nested ensemble; a member storage
\* may have been given a generator g0 of its own before, the inner
\* ensemble through its setter
InitNested ==
    \E e \in NestedEnsembles :
        \E a \in {"none", "g0"}, b \in {"none", "g0"}, c \in {"none", "g0"} :
            /\ kind = e.kind
            /\ _storages = e._storages
            /\ _transforms = e._transforms
            /\ max_size = None
            /\ device = "none"
            /\ ndim = 1
            /\ initialized = None
            /\ _storage = None
            /\ _metadata = None
            /\ _len_value = None
            /\ _len_class = "none"
            /\ _compilable = None
            /\ _total_shape_value = None
            /\ _rng = Generators("none",
                                 <<Generators(a, <<>>), Generators(b, <<>>),
                                   StorageEnsemble_rng_setter(
                                       e._storages[3], NoRng(e._storages[3]),
                                       c)>>)
            /\ _attached_entities_list = None
            /\ workers = NoWorkers
            /\ slots = {}
            /\ n_init = 0
            /\ last = [op |-> "__init__", exc |-> "ok"]

\* the indices __getitem__ is called with: ints from one below the first
\* member to one past the last, the full slice, slices, and lists of up
\* to MaxBatch positions
EnsembleIndices ==
    {IntC(i) : i \in -4..3} \cup {FullSlice}
      \cup {Slice(0, 0, 1), Slice(0, 2, 1), Slice(1, 3, 1), Slice(0, 3, 2),
            Slice(1, MaxCap + 2, 1)}
      \cup {Indices(<<>>)}
      \cup UNION {{Indices(ix) : ix \in [1..m -> -1..3]} : m \in 1..MaxBatch}

\* the calls of set a member storage receives from its own writer: an item
\* appended to the list; a record at rows 0 and 1, a batch of two records
EnsembleMemberSetArgs(self) ==
    IF self.kind \in ListKinds
    THEN {SetCall(IntC(Len(self._storage)), d, TRUE) : d \in Items(self.kind)}
    ELSE {SetCall(IntC(c), SingleRecord(Shapes[n], self.ndim, "x"), TRUE) :
             c \in 0..1, n \in WriterShapes(self) \cap {"K1", "K6"}}
           \cup {SetCall(Slice(0, 2, 1),
                         BatchRecord(Shapes[n], self.ndim, <<"x", "y">>), TRUE) :
                    n \in WriterShapes(self) \cap {"K1", "K6"}}

\* the items StorageEnsemble.get is called with: parallel sequences of up
\* to MaxBatch member ids and indices, sequences of different lengths, a
\* member id counted from the end and one out of range
EnsembleItems ==
    UNION {{EnsembleItem(b, i) : b \in [1..m -> 0..1], i \in [1..m -> 0..1]} :
              m \in 1..MaxBatch}
      \cup {EnsembleItem(<<0, 1>>, <<0>>), EnsembleItem(<<-1>>, <<0>>),
            EnsembleItem(<<2>>, <<0>>)}

\* the variables take the fields of the ensemble a call leaves
EnsembleBecomes(self) ==
    /\ _storages' = self._storages
    /\ _transforms' = self._transforms
    /\ UNCHANGED <<kind, max_size, device, ndim, initialized, _storage,
                   _metadata, _len_value, _len_class, _compilable,
                   _total_shape_value, _rng, _attached_entities_list, workers,
                   slots, n_init>>

\* ensemble._storages[k].set(cursor, data): a member is written directly
MemberSet ==
    \E k \in {j \in 1..Len(_storages) : _storages[j].kind # "StorageEnsemble"} :
        \E a \in EnsembleMemberSetArgs(_storages[k]) :
            LET r == set(_storages[k], a.cursor.type, Raw(a.cursor), a.data,
                         a.set_cursor)
            IN  /\ kind = "StorageEnsemble"
                /\ EnsembleBecomes([Ensemble EXCEPT !._storages[k] = r.self])
                /\ last' = [op |-> "member.set", exc |-> r.exc]

\* ensemble.get(item)
EnsembleGet ==
    \E item \in EnsembleItems :
        LET r == StorageEnsemble_get(Ensemble, item)
        IN  /\ kind = "StorageEnsemble"
            /\ EnsembleBecomes(r.self)
            /\ last' = [op |-> "get", exc |-> r.exc]

\* ensemble._rng = value
SetRng ==
    \E value \in Gens :
        /\ kind = "StorageEnsemble"
        /\ _rng' = StorageEnsemble_rng_setter(Ensemble, _rng, value)
        /\ UNCHANGED <<kind, max_size, device, ndim, initialized, _storage,
                       _metadata, _len_value, _len_class, _compilable,
                       _total_shape_value, _storages, _transforms,
                       _attached_entities_list, workers, slots, n_init>>
        /\ last' = [op |-> "_rng", exc |-> "ok"]

\* the objects that read from a storage
Readers == {"rb1", "rb2", "rb3"}

\* storage.attach(buffer)
Attach ==
    \E buffer \in Readers :
        /\ _attached_entities_list' = Storage_attach(_attached_entities_list, buffer)
        /\ UNCHANGED <<kind, max_size, device, ndim, initialized, _storage,
                       _metadata, _len_value, _len_class, _compilable,
                       _total_shape_value, _storages, _transforms, _rng,
                       workers, slots, n_init>>
        /\ last' = [op |-> "attach", exc |-> "ok"]

\* ensemble[index]
EnsembleGetItem ==
    \E index \in EnsembleIndices :
        LET r == StorageEnsemble_getitem(Ensemble, index)
        IN  /\ kind = "StorageEnsemble"
            /\ EnsembleBecomes(r.self)
            /\ last' = [op |-> "__getitem__", exc |-> r.exc]

\* ensemble.set(cursor, data)
EnsembleSet ==
    LET r == Storage_set(Ensemble, 0, ItemA, TRUE)
    IN  /\ kind = "StorageEnsemble"
        /\ EnsembleBecomes(r.self)
        /\ last' = [op |-> "set", exc |-> r.exc]

\* ensemble.extend(value)
EnsembleExtend ==
    LET r == StorageEnsemble_extend(Ensemble, List(<<ItemA>>))
    IN  /\ kind = "StorageEnsemble"
        /\ EnsembleBecomes(r.self)
        /\ last' = [op |-> "extend", exc |-> r.exc]

\* ensemble.state_dict()
EnsembleStateDict ==
    LET r == StorageEnsemble_state_dict(Ensemble)
    IN  /\ kind = "StorageEnsemble"
        /\ EnsembleBecomes(r.self)
        /\ last' = [op |-> "state_dict", exc |-> r.exc]

\* ensemble.load_state_dict(state_dict)
EnsembleLoadStateDict ==
    LET r == StorageEnsemble_load_state_dict(Ensemble, [type |-> "state_dict"])
    IN  /\ kind = "StorageEnsemble"
        /\ EnsembleBecomes(r.self)
        /\ last' = [op |-> "load_state_dict", exc |-> r.exc]

\* storage.set(cursor, data, set_cursor=...); storage[index] = value is the
\* call with set_cursor = FALSE (Storage.__setitem__).  List-backed storages
\* are followed while the list is at most max_size + MaxOver long.
Set ==
    \E a \in SetArgs(Self) :
        LET r == set(Self, a.cursor.type, Raw(a.cursor), a.data, a.set_cursor)
        IN  /\ n_init < 2
            /\ r.self.kind \in ListKinds =>
                  Len(r.self._storage) <= max_size + MaxOver
            /\ Becomes(r.self)
            /\ n_init' = Min(n_init + r.inits, 2)
            /\ last' = [op |-> "set", exc |-> r.exc]

\* storage.get(index), storage[index]
Get ==
    \E a \in GetArgs(Self) :
        LET r == get(Self, a.type, Raw(a))
        IN  /\ n_init < 2
            /\ Becomes(r.self)
            /\ UNCHANGED n_init
            /\ last' = [op |-> "get", exc |-> r.exc]

\* storage._empty()
Empty ==
    LET r == _empty(Self)
    IN  /\ n_init < 2
        /\ Becomes(r.self)
        /\ UNCHANGED n_init
        /\ last' = [op |-> "_empty", exc |-> r.exc]

\* storage.shape
Shape ==
    LET r == TensorStorage_shape(Self)
    IN  /\ kind \notin ListKinds
        /\ n_init < 2
        /\ Becomes(r.self)
        /\ UNCHANGED n_init
        /\ last' = [op |-> "shape", exc |-> r.exc]

\* storage._rand_given_ndim(batch_size): the generator yields batch_size
\* numbers for every axis
Rand ==
    \E batch_size \in 0..MaxBatch :
        \E draws \in [1..ndim -> [1..batch_size -> 0..MaxDraw]] :
            LET r == _rand_given_ndim(Self, batch_size, draws)
            IN  /\ n_init < 2
                /\ Becomes(r.self)
                /\ UNCHANGED n_init
                /\ last' = [op |-> "_rand_given_ndim", exc |-> r.exc]

\* storage.contains(item), item in storage
Contains ==
    \E item \in ContainsArgs :
        LET r == contains(Self, item)
        IN  /\ n_init < 2
            /\ Becomes(r.self)
            /\ UNCHANGED n_init
            /\ last' = [op |-> "contains", exc |-> r.exc]

\* storage.state_dict()
StateDict ==
    LET r == state_dict(Self)
    IN  /\ n_init < 2
        /\ Becomes(r.self)
        /\ UNCHANGED n_init
        /\ last' = [op |-> "state_dict", exc |-> r.exc]

\* storage.load_state_dict(state_dict)
LoadStateDict ==
    \E sd \in Checkpoints(Self) :
        LET r == load_state_dict(Self, sd)
        IN  /\ n_init < 2
            /\ Becomes(r.self)
            /\ UNCHANGED n_init
            /\ last' = [op |-> "load_state_dict", exc |-> r.exc]

\* storage._init(data), called directly on a tensor storage
CallInit ==
    \E n \in Templates(Self), v \in Vals :
        /\ kind \in TensorKinds
        /\ n_init < 2
        /\ Becomes(_init(Self, SingleRecord(Shapes[n], ndim, v)))
        /\ n_init' = Min(n_init + 1, 2)
        /\ last' = [op |-> "_init", exc |-> "ok"]

\* len(storage)
CallLen ==
    LET r == __len__(Self)
    IN  /\ n_init < 2
        /\ Becomes(r.self)
        /\ UNCHANGED n_init
        /\ last' = [op |-> "__len__", exc |-> r.exc]

\* storage.__getstate__(), as pickle calls it: while a process that is
\* handed the storage is spawned, or anywhere else
GetState ==
    \E spawning \in BOOLEAN :
        LET r == TensorStorage_getstate(Self, spawning)
        IN  /\ kind \notin ListKinds
            /\ n_init < 2
            /\ Becomes(r.self)
            /\ UNCHANGED n_init
            /\ last' = [op |-> IF spawning THEN "spawn" ELSE "__getstate__",
                        exc |-> r.exc]

\* pickle.loads(pickle.dumps(storage)) outside the spawning of a process,
\* the copy taking the place of the storage: __getstate__, then
\* __setstate__ on a new object
Restore ==
    LET g == TensorStorage_getstate(Self, FALSE)
        r == TensorStorage_setstate(g.ret)
    IN  /\ kind \notin ListKinds
        /\ n_init < 2
        /\ g.exc = "ok"
        /\ Becomes(IF r.exc = "ok" THEN r.self ELSE Self)
        /\ UNCHANGED n_init
        /\ last' = [op |-> "__setstate__", exc |-> r.exc]

\* the calls of set with set_cursor=True that return on the storage
CountedArgs(self) ==
    {a \in SetArgs(self) :
        /\ a.set_cursor
        /\ set(self, a.cursor.type, Raw(a.cursor), a.data, TRUE).exc = "ok"}

\* the rows of an ndim = 1 storage of max_size rows that a cursor selects
CursorSlots(self, cursor) ==
    LET pos == Positions(cursor.type, Raw(cursor), self.max_size)
    IN  {pos[k] : k \in 1..Len(pos)}

\* storage.set(cursor, data) with set_cursor=True, the rows it writes being
\* recorded
CountedSet ==
    \E a \in CountedArgs(Self) :
        LET r == set(Self, a.cursor.type, Raw(a.cursor), a.data, TRUE)
        IN  /\ n_init < 2
            /\ Takes(r.self)
            /\ slots' = slots \cup CursorSlots(Self, a.cursor)
            /\ n_init' = Min(n_init + r.inits, 2)
            /\ last' = [op |-> "set", exc |-> r.exc]

\* storage._empty(): no row counts as written any more
CountedEmpty ==
    LET r == _empty(Self)
    IN  /\ n_init < 2
        /\ Takes(r.self)
        /\ slots' = {}
        /\ UNCHANGED n_init
        /\ last' = [op |-> "_empty", exc |-> r.exc]

\* storage._set_item(cursor, data) called directly on a compressed list
\* storage, past the end of the list included; followed while the list is
\* at most max_size + MaxOver long
CallSetItem ==
    \E cursor \in 0..(max_size + MaxOver - 1), data \in Items(kind) :
        LET r == CompressedListStorage_set_item(Self, cursor, data)
        IN  /\ kind = "CompressedListStorage"
            /\ Becomes(r.self)
            /\ UNCHANGED n_init
            /\ last' = [op |-> "_set_item", exc |-> r.exc]

\* storage.bytes() on a compressed list storage
Bytes ==
    LET r == CompressedListStorage_bytes(Self)
    IN  /\ kind = "CompressedListStorage"
        /\ Becomes(r.self)
        /\ UNCHANGED n_init
        /\ last' = [op |-> "bytes", exc |-> r.exc]

(***************************************************************************)
(* Worker processes.  Two processes were handed one initialized storage    *)
(* that is not compilable: each has its own copy of the attributes, and    *)
(* they share the mp.Value behind _len and the memory of the buffers.      *)
(* Each runs one call of set with set_cursor=True; a step of a process is  *)
(* one access to the shared cell or to the shared buffers.                 *)
(***************************************************************************)
\* LazyTensorStorage(MaxCap) written with records of shape sh at rows
\* 0 .. n - 1
RECURSIVE Filled(_, _)
Filled(sh, n) ==
    IF n = 0
    THEN New([kind |-> "LazyTensorStorage", max_size |-> MaxCap,
              device |-> "cpu", ndim |-> 1])
    ELSE set(Filled(sh, n - 1), "int", n - 1, SingleRecord(sh, 1, "x"), TRUE).self

\* the calls a worker runs on a storage of records of shape sh: one record
\* at a row, a batch of two records at two consecutive rows
WorkerCalls(sh, v) ==
    {SetCall(IntC(c), SingleRecord(sh, 1, v), TRUE) : c \in 0..(MaxCap - 1)}
      \cup {SetCall(Slice(a, a + 2, 1), BatchRecord(sh, 1, <<v, v>>), TRUE) :
               a \in 0..(MaxCap - 2)}

\* the rows a call writes
CallSlots(call) ==
    LET pos == Positions(call.cursor.type, Raw(call.cursor), MaxCap)
    IN  {pos[k] : k \in 1..Len(pos)}

\* numel of _get_new_len for a call
CallNumel(call) ==
    Numel(Prefix(DataShape(call.data),
                 IF call.cursor.type = "int" THEN 0 ELSE 1))

\* a process about to run the call
Worker(call) == [pc |-> "read", call |-> call, seen |-> 0]

\* the storage is handed to two workers whose calls write disjoint rows
InitWorkers ==
    \E n \in {"K1", "K6"}, l0 \in 1..(MaxCap - 1) :
        \E c1 \in WorkerCalls(Shapes[n], "x"), c2 \in WorkerCalls(Shapes[n], "y") :
            /\ CallSlots(c1) \cap CallSlots(c2) = {}
            /\ kind = Filled(Shapes[n], l0).kind
            /\ max_size = Filled(Shapes[n], l0).max_size
            /\ device = Filled(Shapes[n], l0).device
            /\ ndim = Filled(Shapes[n], l0).ndim
            /\ initialized = Filled(Shapes[n], l0).initialized
            /\ _storage = Filled(Shapes[n], l0)._storage
            /\ _metadata = Filled(Shapes[n], l0)._metadata
            /\ _len_value = Filled(Shapes[n], l0)._len_value
            /\ _len_class = Filled(Shapes[n], l0)._len_class
            /\ _compilable = Filled(Shapes[n], l0)._compilable
            /\ _total_shape_value = Filled(Shapes[n], l0)._total_shape_value
            /\ _storages = <<>>
            /\ _transforms = None
            /\ _rng = NoRng(Filled(Shapes[n], l0))
            /\ _attached_entities_list = List(<<>>)
            /\ workers = [start |-> l0, procs |-> <<Worker(c1), Worker(c2)>>]
            /\ slots = {}
            /\ n_init = 1
            /\ last = [op |-> "__init__", exc |-> "ok"]

\* _get_new_len, first half: the process reads self._len (_len_value.value)
WorkerRead(w) ==
    /\ workers.procs[w].pc = "read"
    /\ workers' = [workers EXCEPT !.procs[w].pc = "write",
                                  !.procs[w].seen = _len(Self)]
    /\ last' = [op |-> "worker.read", exc |-> "ok"]
    /\ UNCHANGED <<kind, max_size, device, ndim, initialized, _storage,
                   _metadata, _len_value, _len_class, _compilable,
                   _total_shape_value, _storages, _transforms, _rng,
                   _attached_entities_list, slots, n_init>>

\* _get_new_len, second half: the process assigns self._len the minimum of
\* max_size and the length it read plus the element count of its record
WorkerWrite(w) ==
    LET p == workers.procs[w]
    IN  /\ p.pc = "write"
        /\ _len_value' =
              _len(_get_new_len([Self EXCEPT !._len_value = p.seen], p.call.data,
                                p.call.cursor.type = "int"))
        /\ workers' = [workers EXCEPT !.procs[w].pc = "store"]
        /\ last' = [op |-> "worker.write", exc |-> "ok"]
        /\ UNCHANGED <<kind, max_size, device, ndim, initialized, _storage,
                       _metadata, _len_class, _compilable, _total_shape_value,
                       _storages, _transforms, _rng, _attached_entities_list,
                       slots, n_init>>

\* the end of set: the process writes its record into the shared buffers
WorkerStore(w) ==
    LET p == workers.procs[w]
        r == IF is_tensor_collection([type |-> p.call.data.layout])
             THEN SetTensorDict(Raw(p.call.cursor), p.call.cursor.type,
                                p.call.data, _storage)
             ELSE _set_tree_map(Raw(p.call.cursor), p.call.cursor.type,
                                p.call.data, _storage)
    IN  /\ p.pc = "store"
        /\ _storage' = r.storage
        /\ workers' = [workers EXCEPT !.procs[w].pc = "done"]
        /\ last' = [op |-> "worker.store", exc |-> r.exc]
        /\ UNCHANGED <<kind, max_size, device, ndim, initialized, _metadata,
                       _len_value, _len_class, _compilable, _total_shape_value,
                       _storages, _transforms, _rng, _attached_entities_list,
                       slots, n_init>>

NextList == Set \/ Get \/ Empty \/ Contains \/ StateDict \/ LoadStateDict

NextTensor == Set \/ Get \/ Empty \/ Contains \/ StateDict \/ LoadStateDict

NextInit ==
    Set \/ Get \/ Empty \/ Contains \/ StateDict \/ LoadStateDict \/ CallInit

\* the calls that read a storage
NextRead == Get \/ Contains \/ StateDict

Next == NextTensor

\* every storage class, every method but the direct call of _init
Spec == Init /\ [][Next]_vars

\* ListStorage, LazyStackStorage, CompressedListStorage
SpecList == InitList /\ [][NextList]_vars

\* LazyTensorStorage and LazyMemmapStorage with ndim = 1
SpecTensor == InitTensor /\ [][NextTensor]_vars

\* LazyTensorStorage with ndim = 2
SpecGrid == InitGrid /\ [][NextTensor]_vars

\* the ndim = 1 tensor storages, _init also called directly
SpecInit == InitTensor /\ [][NextInit]_vars

NextEnsemble ==
    \/ MemberSet
    \/ EnsembleGet
    \/ EnsembleSet
    \/ EnsembleExtend
    \/ EnsembleStateDict
    \/ EnsembleLoadStateDict

\* the pre-allocated storages: lazily allocated with ndim 1 and 2, and built
\* from a buffer
SpecShape ==
    (InitTensor \/ InitGrid \/ InitBuffer) /\ [][Set \/ Empty \/ Shape]_vars

\* the list-backed and the pre-allocated storages, sampled at random
SpecRand ==
    (InitList \/ InitTensor \/ InitGrid) /\ [][Set \/ Empty \/ Rand]_vars

NextAttach ==
    \/ kind \in TensorKinds /\ CountedSet
    \/ kind \in TensorKinds /\ CountedEmpty
    \/ MemberSet
    \/ Attach

\* the pre-allocated storages and the ensembles, with readers attached
SpecAttach == (InitTensor \/ InitEnsemble) /\ [][NextAttach]_vars

NextNested ==
    \/ SetRng
    \/ EnsembleGetItem
    \/ MemberSet
    \/ EnsembleSet
    \/ EnsembleExtend

\* a StorageEnsemble with an ensemble among its members
SpecNested == InitNested /\ [][NextNested]_vars

\* a StorageEnsemble of two members
SpecEnsemble == InitEnsemble /\ [][NextEnsemble]_vars

\* a TensorStorage constructed from a buffer, and read
SpecBuffer == InitBuffer /\ [][NextRead]_vars

\* the process that appends to a storage it shares with a reader: its
\* next call of set writes one record at the row cursor
Writer(sh, cursor, v) ==
    [pc |-> "len", call |-> SetCall(IntC(cursor), SingleRecord(sh, 1, v), TRUE),
     seen |-> 0]

\* LazyTensorStorage(MaxCap), not written yet, is handed to a writer that
\* starts at row 0, and to a reader
InitReader ==
    \E n \in {"K1", "K6"}, v \in Vals :
        /\ kind = Filled(Shapes[n], 0).kind
        /\ max_size = Filled(Shapes[n], 0).max_size
        /\ device = Filled(Shapes[n], 0).device
        /\ ndim = Filled(Shapes[n], 0).ndim
        /\ initialized = Filled(Shapes[n], 0).initialized
        /\ _storage = Filled(Shapes[n], 0)._storage
        /\ _metadata = Filled(Shapes[n], 0)._metadata
        /\ _len_value = Filled(Shapes[n], 0)._len_value
        /\ _len_class = Filled(Shapes[n], 0)._len_class
        /\ _compilable = Filled(Shapes[n], 0)._compilable
        /\ _total_shape_value = Filled(Shapes[n], 0)._total_shape_value
        /\ _storages = <<>>
        /\ _transforms = None
        /\ _rng = NoRng(Filled(Shapes[n], 0))
        /\ _attached_entities_list = List(<<>>)
        /\ workers = [start |-> 0, procs |-> <<Writer(Shapes[n], 0, v)>>]
        /\ slots = {}
        /\ n_init = 0
        /\ last = [op |-> "__init__", exc |-> "ok"]

\* set, first step: with set_cursor the writer runs _get_new_len, which
\* assigns self._len
WriterLen ==
    LET p == workers.procs[1]
    IN  /\ Len(workers.procs) = 1
        /\ p.pc = "len"
        /\ _len_value' = _len(_get_new_len(Self, p.call.data, TRUE))
        /\ workers' = [workers EXCEPT !.procs[1].pc = "init",
                                      !.procs[1].seen = _len(Self)]
        /\ last' = [op |-> "writer.len", exc |-> "ok"]
        /\ UNCHANGED <<kind, max_size, device, ndim, initialized, _storage,
                       _metadata, _len_class, _compilable, _total_shape_value,
                       _storages, _transforms, _rng, _attached_entities_list,
                       slots, n_init>>

\* set, second step: a storage that is not initialized is allocated from
\* the record
WriterInit ==
    LET p == workers.procs[1]
        s == IF initialized THEN Self ELSE _init(Self, p.call.data)
    IN  /\ Len(workers.procs) = 1
        /\ p.pc = "init"
        /\ max_size' = s.max_size
        /\ device' = s.device
        /\ _storage' = s._storage
        /\ initialized' = s.initialized
        /\ n_init' = IF initialized THEN n_init ELSE n_init + 1
        /\ workers' = [workers EXCEPT !.procs[1].pc = "store"]
        /\ last' = [op |-> "writer.init", exc |-> "ok"]
        /\ UNCHANGED <<kind, ndim, _metadata, _len_value, _len_class,
                       _compilable, _total_shape_value, _storages, _transforms,
                       _rng, _attached_entities_list, slots>>

\* set, last step: the record is written into the buffers; the writer then
\* goes on to the next row, until the storage is full
WriterStore ==
    LET p == workers.procs[1]
        c == Raw(p.call.cursor)
        r == IF is_tensor_collection([type |-> p.call.data.layout])
             THEN SetTensorDict(c, "int", p.call.data, _storage)
             ELSE _set_tree_map(c, "int", p.call.data, _storage)
    IN  /\ Len(workers.procs) = 1
        /\ p.pc = "store"
        /\ _storage' = r.storage
        /\ \E v \in Vals :
              workers' =
                 [workers EXCEPT
                    !.procs[1] =
                       IF c + 1 < MaxCap
                       THEN [p EXCEPT !.pc = "len",
                                      !.call = SetCall(IntC(c + 1),
                                                       [p.call.data EXCEPT
                                                          !.leaves =
                                                             [k \in DOMAIN p.call.data.leaves |->
                                                                [p.call.data.leaves[k]
                                                                   EXCEPT !.rows = <<v>>]]],
                                                       TRUE)]
                       ELSE [p EXCEPT !.pc = "done"]]
        /\ slots' = slots \cup {c}
        /\ last' = [op |-> "writer.store", exc |-> r.exc]
        /\ UNCHANGED <<kind, max_size, device, ndim, initialized, _metadata,
                       _len_value, _len_class, _compilable, _total_shape_value,
                       _storages, _transforms, _rng, _attached_entities_list,
                       n_init>>

\* the reader calls get with a row index, at any point of the writer's set
ReaderGet ==
    \E index \in 0..(MaxCap - 1) :
        LET r == get(Self, "int", index)
        IN  /\ Len(workers.procs) = 1
            /\ _len_value' = r.self._len_value
            /\ _total_shape_value' = r.self._total_shape_value
            /\ last' = [op |-> "reader.get", exc |-> r.exc]
            /\ UNCHANGED <<kind, max_size, device, ndim, initialized, _storage,
                           _metadata, _len_class, _compilable, _storages,
                           _transforms, _rng, _attached_entities_list, workers,
                           slots, n_init>>

NextReader == WriterLen \/ WriterInit \/ WriterStore \/ ReaderGet

\* one writer that appends row after row, and one reader
SpecReader == InitReader /\ [][NextReader]_vars

NextWorkers ==
    \/ \E w \in 1..2 : WorkerRead(w)
    \/ \E w \in 1..2 : WorkerWrite(w)
    \/ \E w \in 1..2 : WorkerStore(w)

\* two worker processes, each running one set on the storage they share
SpecWorkers == InitWorkers /\ [][NextWorkers]_vars

\* the ndim = 1 tensor storages written with set_cursor=True and emptied,
\* the rows written since the last _empty being recorded
SpecCount == InitTensor /\ [][CountedSet \/ CountedEmpty]_vars

\* CompressedListStorage, _set_item also called directly
SpecCompressed ==
    InitCompressed
      /\ [][Set \/ Get \/ Empty \/ CallLen \/ CallSetItem \/ Bytes]_vars

\* the calls of a storage that is pickled: the ones that read and write
\* the length, and pickling
NextShare == Set \/ Empty \/ CallLen \/ GetState \/ Restore

\* LazyTensorStorage with ndim = 1, on a device that can be shared and on
\* one that cannot, compilable or not
SpecShare == InitShare /\ [][NextShare]_vars

(***************************************************************************)
(* Properties of the storages.  A property of one call is stated on every  *)
(* reachable state: the call is applied to the storage of that state, with *)
(* every argument of the sets above.                                       *)
(***************************************************************************)
\* C1: for every storage variant, after any sequence of set calls with
\* scalar, slice or multi-element cursors, 0 <= len(storage) <= max_size.
C1_CapacityInvariant == 0 <= len(Self) /\ len(Self) <= max_size

\* the number of items of a batch handed to set
BatchLen(data) ==
    IF data.type = "list" THEN Len(data.items)
    ELSE Len(data.leaves[FirstKey(data.leaves)].rows)

\* the value a storage keeps for a record: list-backed storages move it to
\* their device
Kept(self, data) ==
    IF self.kind \in ListKinds THEN _to_device(self, data) ELSE data

\* C2: for list-backed and pre-allocated storages, once set(cursor, record)
\* has succeeded, get at the same cursor returns a value equal to record:
\* for a scalar cursor and for an index list as long as the batch, with
\* set_cursor True and False (storage[index] = value), wherever the cursor
\* lies with respect to the occupied prefix.  The records are of the shape
\* of the buffers.
C2_RoundTrip ==
    kind # "CompressedListStorage" =>
        \A a \in SetArgs(Self), set_cursor \in BOOLEAN :
            LET w == set(Self, a.cursor.type, Raw(a.cursor), a.data, set_cursor)
                r == get(w.self, a.cursor.type, Raw(a.cursor))
            IN  (/\ w.exc = "ok"
                 /\ a.data \notin OtherRecords(Self)
                 /\ \/ a.cursor.type = "int"
                    \/ /\ kind \in TensorKinds
                       /\ a.cursor.type = "list"
                       /\ Len(a.cursor.idx) = BatchLen(a.data))
                => (r.exc = "ok" /\ r.ret = Kept(Self, a.data))

\* C3: for compressed list storage, get after set at the same position
\* returns the value that was written: a tensor with its shape, element
\* type, device and contents, a tensordict with its fields, their values
\* and its batch size, any other value unchanged.
C3_CompressedRoundTrip ==
    kind = "CompressedListStorage" =>
        \A c \in 0..(max_size - 1), d \in Items(kind) :
            LET w == set(Self, "int", c, d, TRUE)
                r == get(w.self, "int", c)
            IN  w.exc = "ok" => (r.exc = "ok" /\ r.ret = _to_device(Self, d))

\* what a list-backed storage keeps in a slot for an item
Slot(self, data) ==
    IF self.kind = "CompressedListStorage"
    THEN _compress_item(_to_device(self, data)).compressed
    ELSE _to_device(self, data)

\* C4: for list-backed storage, set with a scalar cursor c >= 0 appends when
\* c = len, overwrites slot c when c < len, and raises when c > len or
\* c >= max_size, leaving the storage as it was.
C4_AppendDiscipline ==
    kind \in ListKinds =>
        \A c \in 0..(max_size + 1), d \in Items(kind), set_cursor \in BOOLEAN :
            LET n == Len(_storage)
                w == set(Self, "int", c, d, set_cursor)
            IN  IF c > n \/ c >= max_size
                THEN w.exc # "ok" /\ w.self = Self
                ELSE /\ w.exc = "ok"
                     /\ Len(w.self._storage) = (IF c = n THEN n + 1 ELSE n)
                     /\ w.self._storage[c + 1] = Slot(Self, d)
                     /\ \A k \in 1..n : k # c + 1 => w.self._storage[k] = _storage[k]

\* a full list-backed storage whose last set call was rejected
C4_Witness ==
    /\ kind \in ListKinds
    /\ last = [op |-> "set", exc |-> "RuntimeError"]
    /\ Len(_storage) = max_size

\* C5: for every storage variant, a successful set(cursor, record,
\* set_cursor=False), which is what storage[index] = value calls, leaves
\* len(storage) unchanged, a scalar cursor equal to the length included.
C5_SetCursorFalseKeepsLen ==
    \A a \in SetArgs(Self) :
        LET w == set(Self, a.cursor.type, Raw(a.cursor), a.data, FALSE)
        IN  w.exc = "ok" => len(w.self) = len(Self)

C8_ReinitRejected ==
    [][(initialized /\ last'.op = "_init")
         => (last'.exc # "ok" /\ UNCHANGED <<_storage, _len_value, max_size>>)]_vars

\* C9: for pre-allocated storages, once the first set has allocated the
\* buffers, a set with a record of another shape, element type or field set
\* than the buffers raises.
C9_TemplateFrozen ==
    initialized =>
        \A d \in OtherRecords(Self) : set(Self, "int", 0, d, TRUE).exc # "ok"

\* C10: for a lazily allocated storage with ndim > 1, the first
\* initialization with a record of row size r gives every buffer
\* ceil(max_size / r) rows along axis 0 and sets max_size to
\* ceil(max_size / r) * r, for a tensor, a tuple of tensors and a tensordict.
C10_GridCapacity ==
    (ndim > 1 /\ _storage = None) =>
        \A n \in Templates(Self), v \in Vals :
            LET d == SingleRecord(Shapes[n], ndim, v)
                r == Numel(Prefix(DataShape(d), ndim - 1))
                w == set(Self, "int", 0, d, TRUE)
            IN  w.exc = "ok" =>
                    /\ \A k \in DOMAIN w.self._storage.leaves :
                          w.self._storage.leaves[k].shape[1] = CeilDiv(max_size, r)
                    /\ w.self.max_size = CeilDiv(max_size, r) * r

\* C11: a TensorStorage constructed from a buffer of leading shape [a, b]
\* has capacity a for ndim = 1 and a * b for ndim = 2, and is initialized
\* and full (len = max_size = capacity) in every state reached by reads.
C11_BufferCapacity ==
    kind = "TensorStorage" =>
        /\ initialized
        /\ max_size = Numel(Prefix(DataShape(_storage), ndim))
        /\ len(Self) = max_size

\* the sample the ensemble hands back for member b: member b's transform
\* applied to it, the sample itself when the member has none
Transformed(self, b, sample) ==
    IF self._transforms = None THEN sample
    ELSE IF self._transforms.items[b + 1] = "none" THEN sample
    ELSE Transform(self._transforms.items[b + 1], sample)

\* what a caller can read of a storage: everything but the cache of the
\* total shape
Visible(self) == [self EXCEPT !._total_shape_value = None]

\* C12: for parallel sequences buffer_ids = [b1..bn] and index = [i1..in],
\* the ensemble's get returns [(b1, t_b1(member_b1.get(i1))), ...,
\* (bn, t_bn(member_bn.get(in)))] in that order, t_b being member b's
\* transform or the identity, and changes no member.
C12_EnsembleRouting ==
    kind = "StorageEnsemble" =>
        \A item \in EnsembleItems :
            LET n == Len(item.buffer_ids)
                member(k) == _storages[item.buffer_ids[k] + 1]
                r == StorageEnsemble_get(Ensemble, item)
            IN  (/\ Len(item.index) = n
                 /\ \A k \in 1..n :
                       /\ item.buffer_ids[k] \in 0..(Len(_storages) - 1)
                       /\ get(member(k), "int", item.index[k]).exc = "ok")
                => /\ r.exc = "ok"
                   /\ r.ret =
                        List([k \in 1..n |->
                                Pair(item.buffer_ids[k],
                                     Transformed(Ensemble, item.buffer_ids[k],
                                                 get(member(k), "int",
                                                     item.index[k]).ret))])
                   /\ \A k \in 1..Len(_storages) :
                         Visible(r.self._storages[k]) = Visible(_storages[k])

\* C13: on a storage ensemble, set, extend, state_dict and load_state_dict
\* each raise on every call and leave every member storage unchanged.
C13_EnsembleReadOnly ==
    kind = "StorageEnsemble" =>
        \A r \in {Storage_set(Ensemble, 0, ItemA, TRUE),
                   StorageEnsemble_extend(Ensemble, List(<<ItemA>>)),
                   StorageEnsemble_state_dict(Ensemble),
                   StorageEnsemble_load_state_dict(Ensemble,
                                                   [type |-> "state_dict"])} :
            r.exc # "ok" /\ r.self._storages = _storages

\* C14: for every storage variant and from every reachable state, _empty()
\* makes len(storage) = 0; for pre-allocated and file-backed storages it
\* leaves initialized, max_size and the buffers as they were.
C14_EmptyResets ==
    LET e == _empty(Self)
    IN  /\ e.exc = "ok"
        /\ len(e.self) = 0
        /\ kind \notin ListKinds =>
              /\ e.self.initialized = initialized
              /\ e.self.max_size = max_size
              /\ e.self._storage = _storage

\* an emptied pre-allocated storage whose buffers still hold a record
C14_Witness ==
    /\ kind \in TensorKinds
    /\ last = [op |-> "_empty", exc |-> "ok"]
    /\ initialized
    /\ len(Self) = 0
    /\ \E k \in DOMAIN _storage.leaves :
          \E r \in 1..Len(_storage.leaves[k].rows) :
              _storage.leaves[k].rows[r] # "garbage"

\* C15: after _empty() and before any new write, get at an index that was
\* written (an index of the occupied prefix before the call) raises on a
\* list-backed storage; on a pre-allocated storage it raises nothing and
\* returns the record the buffers still hold.
C15_StaleAfterEmpty ==
    \A i \in 0..(MaxCap - 1) :
        LET before == get(Self, "int", i)
            after == get(_empty(Self).self, "int", i)
        IN  before.exc = "ok" =>
                IF kind \in ListKinds THEN after.exc # "ok"
                ELSE after.exc = "ok" /\ after.ret = before.ret

\* C16: get on a pre-allocated or file-backed storage that is not
\* initialized raises RuntimeError for every index and changes nothing.
C16_GetUninitialized ==
    (kind \in TensorKinds /\ ~initialized) =>
        \A a \in GetArgs(Self) :
            LET r == get(Self, a.type, Raw(a))
            IN  r.exc = "RuntimeError" /\ r.self = Self

\* a storage that is not initialized and was just read
C16_Witness ==
    /\ kind \in TensorKinds
    /\ ~initialized
    /\ last = [op |-> "get", exc |-> "RuntimeError"]

\* C17: contains(item) on a pre-allocated or file-backed storage that is
\* not initialized raises instead of answering, for ndim = 1 and ndim > 1.
C17_ContainsUninitialized ==
    (kind \in TensorKinds /\ ~initialized) =>
        \A item \in ContainsArgs : contains(Self, item).exc # "ok"

\* the occupied length of a storage: its length, and for a pre-allocated
\* storage with ndim > 1 the number of rows along axis 0 the length covers
OccupiedRows(self) ==
    IF self.kind \in ListKinds \/ self.ndim = 1 THEN len(self)
    ELSE CeilDiv(len(self),
                 Numel(SubSeq(DataShape(self._storage), 2, self.ndim)))

C19_StateDictKeys ==
    LET r == state_dict(Self)
    IN  /\ r.exc = "ok"
        /\ {"_storage", "initialized", "length"} \subseteq Keys(r.ret)
        /\ kind = "CompressedListStorage" => "_metadata" \in Keys(r.ret)

\* a new storage of the class and constructor arguments of self
Fresh(self) ==
    New(CHOOSE c \in Configs : c.kind = self.kind /\ c.ndim = self.ndim)

\* C20: loading the state_dict() of a storage A into a new storage B of the
\* same class and constructor arguments reconstructs the state of A:
\* B.initialized = A.initialized, len(B) = len(A), B.max_size = A.max_size
\* and get returns equal records at every occupied index, ndim > 1
\* storages whose max_size was rounded at the first write included.
C20_StateDictRoundTrip ==
    LET sd == state_dict(Self)
        B == load_state_dict(Fresh(Self), sd.ret)
    IN  /\ sd.exc = "ok"
        /\ B.exc = "ok"
        /\ B.self.initialized = initialized
        /\ len(B.self) = len(Self)
        /\ B.self.max_size = max_size
        /\ \A i \in 0..MaxCap :
              get(Self, "int", i).exc = "ok" =>
                  /\ get(B.self, "int", i).exc = "ok"
                  /\ get(B.self, "int", i).ret = get(Self, "int", i).ret

\* the leaves of the buffers are all on a device a spawned process can share
Shareable(self) ==
    \A k \in DOMAIN self._storage.leaves : assert_is_sharable(LeafDevice(self, k))

\* C21: offering a pre-allocated storage to a spawned process raises when
\* the storage is not initialized, raises when it is initialized and one of
\* its leaves is on a device that cannot be shared, and succeeds when it is
\* initialized and every leaf can be shared, whether the buffers are a
\* tensordict, a tensor or another tree.
C21_ShareChecks ==
    kind \in TensorKinds =>
        LET r == TensorStorage_getstate(Self, TRUE)
        IN  /\ ~initialized => r.exc # "ok"
            /\ (initialized /\ ~Shareable(Self)) => r.exc # "ok"
            /\ (initialized /\ Shareable(Self)) => r.exc = "ok"

\* C22: in every state of a pre-allocated storage, the state a pickle round
\* trip outside process spawning leaves included, the length counter is an
\* mp.Value when the storage is not compilable and a plain int when it is,
\* and len() can be read and the length assigned.
C22_CounterKind ==
    kind \in TensorKinds =>
        /\ _len_class = LenClass(_compilable)
        /\ __len__(Self).exc = "ok"
        /\ SetLen(Self, _len_value).exc = "ok"

\* C23: when the two workers that share a storage have each run their set
\* (set_cursor=True, disjoint rows, n1 and n2 elements), the length is
\* min(L0 + n1 + n2, max_size) whatever the interleaving was.
C23_NoLostIncrement ==
    (Len(workers.procs) = 2 /\ \A w \in 1..2 : workers.procs[w].pc = "done") =>
        _len_value = Min(workers.start + CallNumel(workers.procs[1].call)
                           + CallNumel(workers.procs[2].call),
                         max_size)

\* C24: after any sequence of set calls with set_cursor=True on a
\* pre-allocated storage, whatever the cursors (rows written again
\* included), len(storage) is the number of distinct slots written since the
\* last _empty.
C24_OccupiedCount ==
    kind \in TensorKinds => len(Self) = Cardinality(slots)

\* the positions of the backing list that hold an entry
Entries(self) == {k \in 1..Len(self._storage) : self._storage[k] # None}

\* C25: in every state of a compressed list storage len(storage) is the
\* number of positions of the backing list that hold an entry, whatever the
\* length of the list; _set_item past the end of the list makes the list
\* longer by the placeholders and the entry, and len(storage) larger by one.
C25_CountsEntries ==
    kind = "CompressedListStorage" =>
        /\ __len__(Self).exc = "ok"
        /\ __len__(Self).ret = Cardinality(Entries(Self))
        /\ \A cursor \in Len(_storage)..(max_size + MaxOver), data \in Items(kind) :
              LET r == CompressedListStorage_set_item(Self, cursor, data)
              IN  /\ r.exc = "ok"
                  /\ Len(r.self._storage) = cursor + 1
                  /\ __len__(r.self).ret = __len__(Self).ret + 1

\* a compressed list storage with a placeholder between two entries, after a
\* direct _set_item
C25_Witness ==
    /\ kind = "CompressedListStorage"
    /\ last = [op |-> "_set_item", exc |-> "ok"]
    /\ Len(_storage) = 3
    /\ _storage[1] # None
    /\ _storage[2] = None
    /\ _storage[3] # None

\* C26: bytes() of a compressed list storage returns a value > 0 whenever
\* the storage is not empty, whatever was written (tensors, tensordicts,
\* values stored as they are), and returns 0 with a warning, and no error,
\* when the storage is empty.
C26_BytesConsistent ==
    kind = "CompressedListStorage" =>
        LET r == CompressedListStorage_bytes(Self)
        IN  /\ r.exc = "ok"
            /\ len(Self) > 0 => r.ret.value > 0
            /\ len(Self) = 0 => (r.ret.value = 0 /\ r.ret.warned)

RECURSIVE AllAre(_, _)
\* the generator of the object and of every member below it is g
AllAre(rng, g) ==
    /\ rng.value = g
    /\ \A k \in 1..Len(rng.members) : AllAre(rng.members[k], g)

\* C27: setting a generator g on an ensemble leaves g on the ensemble and on
\* every member storage, the members of member ensembles included, whatever
\* generators they had; and no other operation on the ensemble or on a
\* member changes any of these generators.
C27_GeneratorPropagates ==
    [][/\ kind = "StorageEnsemble" =>
            \A g \in Gens :
                AllAre(StorageEnsemble_rng_setter(Ensemble, _rng, g), g)
       /\ last'.op # "_rng" => _rng' = _rng]_vars

\* a member was written after g1 was set on a nested ensemble whose members
\* are three, the last with two members of its own, and g1 is still the
\* generator of all of them
C27_Witness ==
    /\ kind = "StorageEnsemble"
    /\ last = [op |-> "member.set", exc |-> "ok"]
    /\ Len(_rng.members) = 3
    /\ Len(_rng.members[3].members) = 2
    /\ AllAre(_rng, "g1")

\* the transform an ensemble pairs with its member at a position (from 0):
\* none when it has no transforms
TransformAt(transforms, at) ==
    IF transforms = None THEN "none" ELSE transforms.items[at + 1]

\* the result is a new ensemble whose k-th member is the member at idx[k] of
\* the indexed one, with the transform the indexed one pairs with it
SelectsPairs(self, ret, idx) ==
    /\ ret.type = "StorageEnsemble"
    /\ Len(ret.members) = Len(idx)
    /\ \A k \in 1..Len(idx) :
          /\ ret.members[k] = idx[k]
          /\ TransformAt(ret.transforms, k - 1) = TransformAt(self._transforms, idx[k])

\* C28: ensemble[i] for an int i within range is member i itself;
\* ensemble[slice(None)] is the ensemble itself; ensemble[sl] for another
\* slice and ensemble[[i1..ik]] for a list of positions within range is a
\* new ensemble of the members at these positions, in that order, each with
\* the transform of the original at its position (none when the original
\* has no transforms).  The indexed ensemble is left as it was.
C28_IndexSelects ==
    kind = "StorageEnsemble" =>
        \A index \in EnsembleIndices :
            LET r == StorageEnsemble_getitem(Ensemble, index)
                n == Len(_storages)
            IN  /\ r.self = Ensemble
                /\ (index.type = "int" /\ index.i \in 0..(n - 1)) =>
                      (r.exc = "ok" /\ r.ret = Member(index.i))
                /\ index.type = "slice(None)" => (r.exc = "ok" /\ r.ret = Itself)
                /\ index.type = "slice" =>
                      /\ r.exc = "ok"
                      /\ SelectsPairs(Ensemble, r.ret,
                                      Range(Min(index.start, n), Min(index.stop, n),
                                            index.step))
                /\ (/\ index.type = "list"
                    /\ index.idx # <<>>
                    /\ \A k \in 1..Len(index.idx) : index.idx[k] \in 0..(n - 1)) =>
                      (r.exc = "ok" /\ SelectsPairs(Ensemble, r.ret, index.idx))

\* an ensemble with transforms was indexed, and its index [2, 0] gives the
\* third and the first member with the transforms t2 and t0
C28_Witness ==
    /\ kind = "StorageEnsemble"
    /\ last = [op |-> "__getitem__", exc |-> "ok"]
    /\ _transforms # None
    /\ StorageEnsemble_getitem(Ensemble, Indices(<<2, 0>>)).ret
         = SubEnsemble(<<2, 0>>, List(<<"t2", "t0">>))

C30_RandomIndices ==
    \A batch_size \in 0..MaxBatch :
        \A draws \in [1..2 -> [1..batch_size -> 0..MaxDraw]] :
            /\ (kind \in ListKinds \cup TensorKinds /\ ndim = 1 /\ len(Self) > 0) =>
                  LET r == _rand_given_ndim(Self, batch_size, draws)
                  IN  /\ r.exc = "ok"
                      /\ r.ret.type = "LongTensor"
                      /\ Len(r.ret.idx) = batch_size
                      /\ \A k \in 1..batch_size : r.ret.idx[k] \in 0..(len(Self) - 1)
                      /\ r.self = Self
            /\ kind \in ListKinds =>
                  Storage_rand_given_ndim([Self EXCEPT !.ndim = 2], batch_size,
                                          draws).exc = "RuntimeError"

\* a pre-allocated storage with ndim = 1 that holds one record and has room
\* for another, after indices were drawn from it
C30_Witness ==
    /\ kind \in TensorKinds
    /\ ndim = 1
    /\ len(Self) = 1
    /\ max_size > 1
    /\ last = [op |-> "_rand_given_ndim", exc |-> "ok"]

\* what a list-backed storage keeps in a slot for an item: the item moved to
\* the device of the storage, compressed by a CompressedListStorage
KeptInSlot(self, item) ==
    IF self.kind = "CompressedListStorage"
    THEN _compress_item(_to_device(self, item)).compressed
    ELSE _to_device(self, item)

\* the lists of indices of the pairwise writes: the runs a writer hands out,
\* a run in reverse order, and an index given twice
PairCursors(self) == ListCursors(self) \cup {Indices(<<0, 0>>)}

\* C31: set of a list-backed storage with a list of indices [c1..ck] and a
\* list of items [d1..dm] raises when k # m.  When k = m and the call
\* returns, every slot ci holds di as the storage keeps it (the last di for
\* an index given more than once), every other slot is as before, and the
\* list is as long as the highest index written requires.  It returns when
\* k = m and the indices are slots in use below max_size, or the next free
\* slots below max_size in order.
C31_PairwiseWrite ==
    kind \in ListKinds =>
        \A c \in PairCursors(Self), d \in ItemLists :
            LET r == set(Self, "list", c.idx, d, TRUE)
                k == Len(c.idx)
                m == Len(d.items)
                n == Len(_storage)
                used == \A j \in 1..k : c.idx[j] < Min(n, max_size)
                next == \A j \in 1..k : c.idx[j] = n + j - 1 /\ c.idx[j] < max_size
            IN  /\ k # m => r.exc # "ok"
                /\ (k = m /\ (used \/ next)) => r.exc = "ok"
                /\ (k = m /\ r.exc = "ok") =>
                      /\ \A j \in 1..k :
                            (\A i \in (j + 1)..k : c.idx[i] # c.idx[j]) =>
                                r.self._storage[c.idx[j] + 1] = KeptInSlot(Self, d.items[j])
                      /\ \A p \in 1..n :
                            (\A j \in 1..k : c.idx[j] # p - 1) =>
                                r.self._storage[p] = _storage[p]
                      /\ \A p \in 1..Len(r.self._storage) :
                            p <= n \/ \E j \in 1..k : c.idx[j] = p - 1

\* a list-backed storage of two items after a set, where the indices [1, 0]
\* with two items write both slots, the second item at slot 0
C31_Witness ==
    /\ kind \in ListKinds
    /\ last = [op |-> "set", exc |-> "ok"]
    /\ Len(_storage) = 2
    /\ LET r == set(Self, "list", <<1, 0>>, List(<<ItemA, ItemB>>), TRUE)
       IN  /\ r.exc = "ok"
           /\ r.self._storage = <<KeptInSlot(Self, ItemB), KeptInSlot(Self, ItemA)>>

\* the element count of one row of the buffers: the product of the axes 1
\* to ndim - 1
RowSize(storage, nd) == Numel(Tail(Prefix(DataShape(storage), nd)))

\* C32: no step changes max_size, except the first allocation of the
\* buffers of an ndim > 1 storage, which may raise it to the next multiple
\* of the row size; it is never changed a second time and never lowered.
C32_CapacityFixed ==
    [][\/ max_size' = max_size
       \/ /\ ndim > 1
          /\ n_init = 0
          /\ n_init' = 1
          /\ max_size' = CeilDiv(max_size, RowSize(_storage', ndim))
                           * RowSize(_storage', ndim)]_vars

\* the readers in a list, and a list without a reader in it twice
ReadersIn(entities) == {entities[k] : k \in 1..Len(entities)}

NoReaderTwice(entities) ==
    \A i, j \in 1..Len(entities) : entities[i] = entities[j] => i = j

\* C33: no reader is in the attached entities twice; attach of a reader
\* that is attached leaves the list as it is, attach of another one appends
\* it at the end (so the readers are in the order of their first attach);
\* and a step of attach changes neither the contents nor the length nor
\* any other attribute of the storage.
C33_AttachOnce ==
    [][/\ NoReaderTwice(_attached_entities(_attached_entities_list))
       /\ \A buffer \in Readers :
             LET before == _attached_entities(_attached_entities_list)
                 after == Storage_attach(_attached_entities_list, buffer).items
             IN  /\ buffer \in ReadersIn(before) => after = before
                 /\ buffer \notin ReadersIn(before) => after = Append(before, buffer)
                 /\ Storage_attach(List(after), buffer).items = after
       /\ last'.op = "attach" =>
             UNCHANGED <<_storage, _metadata, _len_value, initialized, max_size,
                         _storages, _transforms>>]_vars

\* a written storage after an attach, with two readers attached, rb2 before
\* rb1
C33_Witness ==
    /\ kind \in TensorKinds
    /\ _len_value > 0
    /\ last = [op |-> "attach", exc |-> "ok"]
    /\ _attached_entities_list = List(<<"rb2", "rb1">>)

\* the number of elements a record writes: the product of its leading ndim
\* axes, of its leading ndim - 1 axes when the cursor is an integer
Written(data, nd, ckind) ==
    Numel(Prefix(DataShape(data), IF ckind = "int" THEN nd - 1 ELSE nd))

\* C34: on a pre-allocated storage of length L, a set with set_cursor=True
\* that returns leaves the length at min(L + n, max_size), n being the number
\* of elements of the record and max_size the capacity of the storage the
\* call leaves, whatever slots the cursor addresses.
C34_LengthAccumulates ==
    kind \in TensorKinds \cup {"TensorStorage"} =>
        \A a \in SetArgs(Self) :
            LET r == set(Self, a.cursor.type, Raw(a.cursor), a.data, TRUE)
            IN  r.exc = "ok" =>
                    len(r.self) = Min(len(Self) + Written(a.data, ndim, a.cursor.type),
                                      r.self.max_size)

\* C35: a set that raises, whatever the class of the storage and the form
\* of the cursor (integer, slice, list of indices) and whatever it raises
\* for, leaves the length, the initialized flag and the stored contents as
\* they were before the call.
C35_FailedSetKeepsState ==
    \A a \in SetArgs(Self) :
        LET r == set(Self, a.cursor.type, Raw(a.cursor), a.data, a.set_cursor)
        IN  r.exc # "ok" =>
                /\ len(r.self) = len(Self)
                /\ r.self.initialized = initialized
                /\ r.self._storage = _storage
                /\ r.self._metadata = _metadata

\* C36: get, len, contains, shape, _rand_given_ndim and state_dict on a
\* pre-allocated storage, with ndim = 1 or above, leave its length as it
\* was, whether they return or raise, the first query of the shape of an
\* initialized storage whose length is not a whole number of rows included.
C36_ReadOnlyKeepsLength ==
    kind \in TensorKinds \cup {"TensorStorage"} =>
        /\ \A c \in GetArgs(Self) : len(get(Self, c.type, Raw(c)).self) = len(Self)
        /\ \A item \in ContainsArgs : len(contains(Self, item).self) = len(Self)
        /\ len(TensorStorage_shape(Self).self) = len(Self)
        /\ len(state_dict(Self).self) = len(Self)
        /\ len(__len__(Self).self) = len(Self)
        /\ \A batch_size \in 0..1 :
              \A draws \in [1..2 -> [1..batch_size -> 0..MaxDraw]] :
                  len(_rand_given_ndim(Self, batch_size, draws).self) = len(Self)

\* C37: when a lazily allocated storage that has no buffers yet is
\* initialized from a record, a record tree with several leaves included,
\* all the leaf buffers it allocates have the same sizes along their first
\* ndim axes, for ndim = 1 and ndim > 1.
C37_LeavesAligned ==
    (kind \in TensorKinds /\ ~initialized) =>
        \A data \in SingleRecords(Self) :
            LET leaves == _init(Self, data)._storage.leaves
            IN  \A k, j \in DOMAIN leaves :
                    Prefix(leaves[k].shape, ndim) = Prefix(leaves[j].shape, ndim)

\* C38: while one process appends to a shared pre-allocated storage, row
\* after row, and another reads it, in every state of every interleaving
\* the storage is initialized if its length is above 0, and every row
\* below its length holds the record written to it: the length never
\* covers a row that set has not written yet.
C38_LengthCoversWritten ==
    Len(workers.procs) = 1 =>
        /\ len(Self) > 0 => initialized
        /\ initialized =>
              \A i \in 0..(len(Self) - 1) :
                  /\ i \in slots
                  /\ \A k \in DOMAIN _storage.leaves :
                        _storage.leaves[k].rows[i + 1] # "garbage"

\* C39: in every state a compressed list storage reaches by set (integer,
\* slice and index-list cursors), _set_item and _empty, the list of
\* payloads and the list of metadata have the same length, and a position
\* holds a payload exactly when it holds metadata.
C39_PayloadHasMetadata ==
    kind = "CompressedListStorage" =>
        /\ Len(_storage) = Len(_metadata)
        /\ \A i \in 1..Len(_storage) :
              (_storage[i] = None) <=> (_metadata[i] = None)

\* a compressed list storage that holds a payload with its metadata at one
\* position and None in both lists at a position before it, after a set
C39_Witness ==
    /\ kind = "CompressedListStorage"
    /\ last.op \in {"set", "_set_item"}
    /\ last.exc = "ok"
    /\ \E i, j \in 1..Len(_storage) :
          /\ i < j
          /\ _storage[i] = None
          /\ _storage[j] # None
          /\ _metadata[j] # None

\* C40: __getstate__ outside the spawning of a process followed by
\* __setstate__ on a new object, for a pre-allocated storage whose length
\* can be read, compilable or not: both calls return, the new object has
\* the len, the initialized flag and the max_size of the original, and the
\* original is left as it was.
C40_PickleRoundTrip ==
    (kind \in TensorKinds /\ LenFault(Self) = "ok") =>
        LET g == TensorStorage_getstate(Self, FALSE)
            r == TensorStorage_setstate(g.ret)
        IN  /\ g.exc = "ok"
            /\ g.self = Self
            /\ r.exc = "ok"
            /\ r.self.initialized = initialized
            /\ r.self.max_size = max_size
            /\ __len__(r.self).exc = "ok"
            /\ __len__(r.self).ret = __len__(Self).ret
====
